---- MODULE Spec2Model ----
(***************************************************************************)
(* Candidate-to-role matching of the HR platform: the eligibility gate     *)
(* (routers/applications.py), the rule-based scorer and the match          *)
(* aggregator (services/cv_matching.py) and the FAISS role index           *)
(* (services/cv_faiss_store.py).                                           *)
(*                                                                         *)
(* A skill label is a sequence of one-character strings, so that           *)
(* str.lower(), str.strip() and the `in` substring test are computed and   *)
(* not assumed.  Scores are exact rationals held as integers in units of   *)
(* 1/ScoreDen of a point (binary floating-point error is not modelled).    *)
(***************************************************************************)
EXTENDS Integers, Sequences, FiniteSets, TLC

VARIABLES
    in_cand,      \* pure-function harness: candidate skill list
    in_req,       \* pure-function harness: required skill list
    in_pref,      \* pure-function harness: preferred skill list
    in_years,     \* pure-function harness: years of experience
    elig_out,     \* result of check_eligibility, or NoResult
    score_out,    \* result of calculate_match_score, or NoResult
    job_roles,    \* table job_roles, in query order
    VECTORSTORE,  \* cv_faiss_store._VECTORSTORE: the index in memory
    disk,         \* the index saved under VECTOR_STORE_PATH
    search_out,   \* last direct call of match_candidate_to_roles, or NoResult
    fm,           \* last call of find_matching_roles, or NoResult
    in_other,     \* pure-function harness: a second candidate skill list
    rebuilt,      \* what rebuild_cv_vector_store returned, if it was the last call
    cvs,          \* table cvs of the candidate, in insertion order
    applications, \* table applications, in insertion order
    recheck_out,  \* last response of recheck_eligibility, or NoResult
    inflight,     \* the requests in progress, one per worker
    interviews,   \* table interviews, in insertion order
    onboarding,   \* the candidate's row of table onboarding
    response      \* the last HTTP response of a status or progress endpoint

pure_vars == <<in_cand, in_req, in_pref, in_years, elig_out, score_out, in_other>>
ext_vars == <<inflight, interviews, onboarding, response>>
app_vars == <<cvs, applications, recheck_out, inflight, interviews, onboarding,
              response>>
sys_vars == <<job_roles, VECTORSTORE, disk, search_out, fm, rebuilt,
              cvs, applications, recheck_out, inflight, interviews, onboarding,
              response>>
vars == <<in_cand, in_req, in_pref, in_years, elig_out, score_out, in_other,
          job_roles, VECTORSTORE, disk, search_out, fm, rebuilt,
          cvs, applications, recheck_out, inflight, interviews, onboarding,
              response>>

(***************************************************************************)
(* Bounds of the model.                                                    *)
(***************************************************************************)
MaxCand == 3
MaxReq == 2
MaxPref == 1
MaxRoles == 2     \* rows of job_roles
MaxDocs == 3      \* chunks the role texts, and the index after an upsert, may hold

NoResult == [none |-> TRUE]

(***************************************************************************)
(* Strings.                                                                *)
(***************************************************************************)
UpperChars == <<"A","B","C","D","E","F","G","H","I","J","K","L","M",
                "N","O","P","Q","R","S","T","U","V","W","X","Y","Z">>
LowerChars == <<"a","b","c","d","e","f","g","h","i","j","k","l","m",
                "n","o","p","q","r","s","t","u","v","w","x","y","z">>

OtherChars == {" ", "\t", "\n", "0", "1", "2", "3", "4", "5", "6", "7", "8", "9",
               "[", "]", ",", "\""}

Chars == {UpperChars[i] : i \in 1..26} \cup {LowerChars[i] : i \in 1..26}
            \cup OtherChars

\* the lowercase form of every character
LowerOf ==
    [c \in Chars |->
        IF \E i \in 1..26 : UpperChars[i] = c
        THEN LowerChars[CHOOSE i \in 1..26 : UpperChars[i] = c]
        ELSE c]

LowerChar(c) == LowerOf[c]

\* str.lower()
Lower(s) == [i \in 1..Len(s) |-> LowerChar(s[i])]

IsSpace(c) == c \in {" ", "\t", "\n"}

RECURSIVE LStrip(_)
LStrip(s) == IF s # << >> /\ IsSpace(Head(s)) THEN LStrip(Tail(s)) ELSE s

RECURSIVE RStrip(_)
RStrip(s) ==
    IF s # << >> /\ IsSpace(s[Len(s)]) THEN RStrip(SubSeq(s, 1, Len(s) - 1)) ELSE s

\* str.strip()
Strip(s) == RStrip(LStrip(s))

\* a in b, for strings
Contains(b, a) ==
    \E i \in 1..(Len(b) - Len(a) + 1) : SubSeq(b, i, i + Len(a) - 1) = a

\* x in xs, for a list
InList(x, xs) == \E i \in 1..Len(xs) : xs[i] = x

\* faulty variant: the kept items are stored lowercased
RECURSIVE SelectSeqBy_lower(_, _)
SelectSeqBy_lower(xs, keep) ==
    IF xs = << >> THEN << >>
    ELSE (IF keep[1] THEN <<Lower(Head(xs))>> ELSE << >>)
         \o SelectSeqBy_lower(Tail(xs), Tail(keep))

\* the items of xs whose flag in keep is set, in order
RECURSIVE SelectSeqBy(_, _)
SelectSeqBy(xs, keep) ==
    IF xs = << >> THEN << >>
    ELSE (IF keep[1] THEN <<Head(xs)>> ELSE << >>)
         \o SelectSeqBy(Tail(xs), Tail(keep))

RECURSIVE SeqsUpTo(_, _)
SeqsUpTo(S, n) ==
    IF n = 0 THEN {<< >>}
    ELSE LET shorter == SeqsUpTo(S, n - 1)
         IN  shorter \cup {Append(q, x) : q \in shorter, x \in S}

RECURSIVE Fact(_)
Fact(n) == IF n <= 1 THEN 1 ELSE n * Fact(n - 1)

Min(a, b) == IF a <= b THEN a ELSE b
Max(a, b) == IF a >= b THEN a ELSE b

\* the characters of a string, as a for loop over the string yields them
IterChars(text) == [i \in 1..Len(text) |-> <<text[i]>>]

\* json.dumps of a list of labels: ["a", "b"]
RECURSIVE JsonItems(_)
JsonItems(xs) ==
    IF xs = << >> THEN << >>
    ELSE <<"\"">> \o Head(xs) \o <<"\"">>
            \o (IF Len(xs) > 1 THEN <<",", " ">> ELSE << >>)
            \o JsonItems(Tail(xs))

JsonDumps(xs) == <<"[">> \o JsonItems(xs) \o <<"]">>

\* json.loads of the text of a list of labels (the labels hold no quote and
\* no escape): the runs of characters between pairs of quotes
RECURSIVE ParseItems(_, _, _)
ParseItems(text, in_string, current) ==
    IF text = << >> THEN << >>
    ELSE IF Head(text) = "\""
         THEN IF in_string
              THEN <<current>> \o ParseItems(Tail(text), FALSE, << >>)
              ELSE ParseItems(Tail(text), TRUE, << >>)
         ELSE IF in_string
              THEN ParseItems(Tail(text), TRUE, Append(current, Head(text)))
              ELSE ParseItems(Tail(text), FALSE, current)

JsonLoads(text) == ParseItems(text, FALSE, << >>)

(***************************************************************************)
(* Score arithmetic.  A score is an integer number of 1/ScoreDen points:   *)
(* ScoreDen is a multiple of every list length (the rule-based terms), of  *)
(* 100 (two-decimal rounding) and of 5 (the 0.4 / 0.6 blend).              *)
(***************************************************************************)
ScoreDen == 500 * Fact(Max(MaxReq, MaxPref))

Points(n) == n * ScoreDen

(***************************************************************************)
(* Eligibility gate: routers/applications.py                               *)
(***************************************************************************)
\* faulty variant: the gate matches by containment, as the scorer does
RequiredSkillPresent_substring(skill, cv_skills_lower) ==
    \E j \in 1..Len(cv_skills_lower) :
        \/ Contains(Strip(Lower(skill)), cv_skills_lower[j])
        \/ Contains(cv_skills_lower[j], Strip(Lower(skill)))

\* skill.lower().strip() in cv_skills_lower
RequiredSkillPresent(skill, cv_skills_lower) ==
    InList(Strip(Lower(skill)), cv_skills_lower)

check_eligibility(cv_skills, job_non_negotiable) ==
    LET cv_skills_lower ==
            [i \in 1..Len(cv_skills) |-> Strip(Lower(cv_skills[i]))]
        hit ==
            [i \in 1..Len(job_non_negotiable) |->
                RequiredSkillPresent(job_non_negotiable[i], cv_skills_lower)]
        matched == SelectSeqBy(job_non_negotiable, hit)
        missing ==
            SelectSeqBy(job_non_negotiable,
                        [i \in 1..Len(job_non_negotiable) |-> ~hit[i]])
        is_eligible == Len(missing) = 0
    IN  [eligible       |-> is_eligible,
         matched_skills |-> matched,
         missing_skills |-> missing,
         explanation    |->
            IF is_eligible
            THEN <<"All required skills matched">>
            ELSE <<"Missing required skills: ", missing>>]

(***************************************************************************)
(* Rule-based scorer: services/cv_matching.py                              *)
(***************************************************************************)
\* any(cs in skill or skill in cs for cs in candidate_skills_lower)
AnyCandidateMatches(skill, candidate_skills_lower) ==
    \E j \in 1..Len(candidate_skills_lower) :
        \/ Contains(skill, candidate_skills_lower[j])
        \/ Contains(candidate_skills_lower[j], skill)

\* faulty variant: the share of the skills that are missing is scored
RatioScore_missing(matching, total, weight) ==
    IF total > 0 THEN ((total - matching) * Points(weight)) \div total ELSE 0

\* (matching / total) * weight, and 0 for an empty list
RatioScore(matching, total, weight) ==
    IF total > 0 THEN (matching * Points(weight)) \div total ELSE 0

\* faulty variant: the experience bonus is not capped
ExperienceScore_uncapped(years_exp) == (years_exp * Points(20)) \div 10

\* min(years_exp / 10 * 20, 20)
ExperienceScore(years_exp) ==
    Min((years_exp * Points(20)) \div 10, Points(20))

calculate_match_score(candidate_skills, non_negotiable_skills, good_to_have_skills, candidate_experience) ==
    LET candidate_skills_lower ==
            [i \in 1..Len(candidate_skills) |-> Lower(candidate_skills[i])]
        non_negotiable_lower ==
            [i \in 1..Len(non_negotiable_skills) |-> Lower(non_negotiable_skills[i])]
        good_to_have_lower ==
            [i \in 1..Len(good_to_have_skills) |-> Lower(good_to_have_skills[i])]
        matching_non_negotiable ==
            Cardinality({i \in 1..Len(non_negotiable_lower) :
                AnyCandidateMatches(non_negotiable_lower[i], candidate_skills_lower)})
        non_negotiable_score ==
            RatioScore(matching_non_negotiable, Len(non_negotiable_skills), 50)
        matching_good_to_have ==
            Cardinality({i \in 1..Len(good_to_have_lower) :
                AnyCandidateMatches(good_to_have_lower[i], candidate_skills_lower)})
        good_to_have_score ==
            RatioScore(matching_good_to_have, Len(good_to_have_skills), 30)
        years_exp == candidate_experience.years_of_experience
        experience_score == ExperienceScore(years_exp)
        total_score == non_negotiable_score + good_to_have_score + experience_score
        hit_nn ==
            [i \in 1..Len(non_negotiable_skills) |->
                AnyCandidateMatches(Lower(non_negotiable_skills[i]),
                                    candidate_skills_lower)]
        hit_pref ==
            [i \in 1..Len(good_to_have_skills) |->
                AnyCandidateMatches(Lower(good_to_have_skills[i]),
                                    candidate_skills_lower)]
    IN  [score |-> total_score,
         reason |-> [matched_required  |-> matching_non_negotiable,
                     total_required    |-> Len(non_negotiable_skills),
                     matched_preferred |-> matching_good_to_have,
                     total_preferred   |-> Len(good_to_have_skills),
                     years             |-> years_exp],
         matched_non_negotiable |-> SelectSeqBy(non_negotiable_skills, hit_nn),
         matched_preferred      |-> SelectSeqBy(good_to_have_skills, hit_pref),
         missing_non_negotiable |->
            SelectSeqBy(non_negotiable_skills,
                        [i \in 1..Len(non_negotiable_skills) |-> ~hit_nn[i]])]

(***************************************************************************)
(* Skill labels used as inputs.                                            *)
(***************************************************************************)
S_python     == <<"p","y","t","h","o","n">>
S_docker     == <<"d","o","c","k","e","r">>
S_excel      == <<"e","x","c","e","l">>
S_aws_lambda == <<"A","W","S"," ","L","a","m","b","d","a">>
S_sql_padded == <<" ","s","q","l","\t">>
S_Python     == <<"P","y","t","h","o","n">>
S_Python_3   == <<"P","y","t","h","o","n"," ","3">>
S_SQL        == <<"S","Q","L">>
S_AWS        == <<"a","w","s">>
S_Docker     == <<"D","o","c","k","e","r">>
S_Excel_pad  == <<" ","E","x","c","e","l"," ">>
S_SQL_pad    == <<"S","Q","L"," ">>

\* check_eligibility is applied to lists over these labels
EligCandPool == {S_python, S_excel, S_aws_lambda, S_sql_padded}
EligReqPool  == {S_Python, S_SQL, S_AWS, S_Excel_pad}

\* calculate_match_score is applied to lists over these labels
CandPool  == {S_python, S_docker, S_excel, S_sql_padded}
ReqPool   == {S_Python, S_SQL, S_Python_3, S_SQL_pad}
PrefPool  == {S_Docker}
YearsPool == {0, 5, 12}

\* the workers that serve requests side by side
Workers == {1, 2}

\* a worker that serves no request
Idle == [op |-> "idle"]

\* no template has been assigned yet
NoOnboarding == [assigned |-> FALSE]

\* the system part of the state, as it is when the process starts on an
\* empty database with no saved index
NoStore == [present |-> FALSE, docs |-> << >>]

SysIdle ==
    /\ job_roles = << >>
    /\ VECTORSTORE = NoStore
    /\ disk = NoStore
    /\ search_out = NoResult
    /\ fm = NoResult
    /\ rebuilt = NoResult
    /\ cvs = << >>
    /\ applications = << >>
    /\ recheck_out = NoResult
    /\ inflight = [w \in Workers |-> Idle]
    /\ interviews = << >>
    /\ onboarding = NoOnboarding
    /\ response = NoResult

(***************************************************************************)
(* SpecElig: check_eligibility applied to every pair of bounded lists.     *)
(***************************************************************************)
InitElig ==
    /\ in_cand \in SeqsUpTo(EligCandPool, MaxCand)
    /\ in_req \in SeqsUpTo(EligReqPool, MaxReq)
    /\ in_pref = << >>
    /\ in_years = 0
    /\ in_other = << >>
    /\ elig_out = NoResult
    /\ score_out = NoResult
    /\ SysIdle

CallCheckEligibility ==
    /\ elig_out = NoResult
    /\ elig_out' = check_eligibility(in_cand, in_req)
    /\ UNCHANGED <<in_cand, in_req, in_pref, in_years, in_other, score_out>>
    /\ UNCHANGED sys_vars

NextElig == CallCheckEligibility

SpecElig == InitElig /\ [][NextElig]_vars

(***************************************************************************)
(* SpecScore: calculate_match_score applied to bounded inputs.             *)
(***************************************************************************)
InitScore ==
    /\ in_cand \in SeqsUpTo(CandPool, MaxCand)
    /\ in_req \in SeqsUpTo(ReqPool, MaxReq)
    /\ in_pref \in SeqsUpTo(PrefPool, MaxPref)
    /\ in_years \in YearsPool
    /\ in_other = << >>
    /\ elig_out = NoResult
    /\ score_out = NoResult
    /\ SysIdle

CallCalculateMatchScore ==
    /\ score_out = NoResult
    /\ score_out' = calculate_match_score(in_cand, in_req, in_pref,
                                          [years_of_experience |-> in_years])
    /\ UNCHANGED <<in_cand, in_req, in_pref, in_years, in_other, elig_out>>
    /\ UNCHANGED sys_vars

NextScore == CallCalculateMatchScore

SpecScore == InitScore /\ [][NextScore]_vars

(***************************************************************************)
(* C1: check_eligibility(A, B).eligible is true exactly when every skill   *)
(* of B, lowercased and trimmed, equals some skill of A, lowercased and    *)
(* trimmed; an empty B is always eligible; and eligible holds exactly when *)
(* missing_skills is empty.                                                *)
(***************************************************************************)
C1_EligibleIffExactSuperset ==
    elig_out # NoResult =>
        /\ elig_out.eligible =
             (\A i \in 1..Len(in_req) : \E j \in 1..Len(in_cand) :
                 Strip(Lower(in_req[i])) = Strip(Lower(in_cand[j])))
        /\ (in_req = << >> => elig_out.eligible)
        /\ elig_out.eligible = (elig_out.missing_skills = << >>)

\* eligible although no required label occurs literally in the candidate list,
\* next to a candidate label that contains a required one without equalling it
C1_Witness ==
    /\ elig_out # NoResult
    /\ elig_out.eligible
    /\ Len(in_req) = 2
    /\ in_req[1] # in_req[2]
    /\ \A i \in 1..Len(in_req) : ~InList(in_req[i], in_cand)
    /\ InList(S_aws_lambda, in_cand)

NoneVal == << >>
Some(x) == <<x>>

\* round(n / d) for n >= 0, d > 0, halves to the even neighbour
RoundDiv(n, d) ==
    LET lo == n \div d
        r  == n - lo * d
    IN  IF 2 * r < d THEN lo
        ELSE IF 2 * r > d THEN lo + 1
        ELSE IF lo % 2 = 0 THEN lo ELSE lo + 1

\* one hundredth of a point
Cent == ScoreDen \div 100

\* round(x, 2) of a score x
Round2(x) == Cent * RoundDiv(x, Cent)

\* L2 distances the embedding may put between the query and a chunk
Distances == {1, 2}

\* number of chunks the splitter may cut a rendered role text into
ChunkCounts == {1, 2}

DefaultK == 5

InitDoc == [type |-> "init", owner |-> 0, part |-> 1]
RoleDoc(role_id, p) == [type |-> "role", owner |-> role_id, part |-> p]
ResumeDoc(candidate_id, p) == [type |-> "resume", owner |-> candidate_id, part |-> p]

\* splitter.split_documents([doc]) for the rendered text of a role
RoleChunks(job) == [p \in 1..job.text_chunks |-> RoleDoc(job.id, p)]

RECURSIVE Flatten(_)
Flatten(seqs) == IF seqs = << >> THEN << >> ELSE Head(seqs) \o Flatten(Tail(seqs))

IsActive(job) == job.is_active

\* faulty variant: the query is not filtered by is_active
ActiveRoles_all(rows) == rows

\* table('job_roles').select("*").eq('is_active', True)
ActiveRoles(rows) == SelectSeq(rows, IsActive)

\* number of chunks of the index tagged to a role
RoleChunkCount(docs, role_id) ==
    Cardinality({i \in 1..Len(docs) :
        docs[i].type = "role" /\ docs[i].owner = role_id})

\* the index built from the active roles, saved to disk
BuildStore(rows) ==
    LET documents == ActiveRoles(rows)
        chunks ==
            IF documents # << >>
            THEN Flatten([i \in 1..Len(documents) |-> RoleChunks(documents[i])])
            ELSE <<InitDoc>>
    IN  [present |-> TRUE, docs |-> chunks]

\* faulty variant: the rebuild flag is ignored
initialize_cv_vector_store_cached(rebuild) ==
    IF VECTORSTORE.present
    THEN [mem |-> VECTORSTORE, disk |-> disk]
    ELSE IF disk.present
    THEN [mem |-> disk, disk |-> disk]
    ELSE [mem |-> BuildStore(job_roles), disk |-> BuildStore(job_roles)]

\* the pair (index in memory, index on disk) the call leaves
initialize_cv_vector_store(rebuild) ==
    IF VECTORSTORE.present /\ ~rebuild
    THEN [mem |-> VECTORSTORE, disk |-> disk]
    ELSE IF disk.present /\ ~rebuild
    THEN [mem |-> disk, disk |-> disk]
    ELSE [mem |-> BuildStore(job_roles), disk |-> BuildStore(job_roles)]

get_cv_vector_store == initialize_cv_vector_store(FALSE)

\* vectorstore.add_documents(chunks) for a role
AddedRoleDocs(docs, job) == docs \o RoleChunks(job)

add_role_to_vector_store(job_data) ==
    LET vectorstore == get_cv_vector_store
        docs == AddedRoleDocs(vectorstore.mem.docs, job_data)
    IN  /\ Len(docs) <= MaxDocs
        /\ VECTORSTORE' = [present |-> TRUE, docs |-> docs]
        /\ disk' = [present |-> TRUE, docs |-> docs]
        /\ search_out' = NoResult
        /\ fm' = NoResult
        /\ UNCHANGED job_roles
        /\ UNCHANGED pure_vars
        /\ UNCHANGED app_vars
        /\ rebuilt' = NoResult

add_resume_to_vector_store(candidate_id, n_chunks) ==
    LET vectorstore == get_cv_vector_store
        docs == vectorstore.mem.docs
                    \o [p \in 1..n_chunks |-> ResumeDoc(candidate_id, p)]
    IN  /\ Len(docs) <= MaxDocs
        /\ VECTORSTORE' = [present |-> TRUE, docs |-> docs]
        /\ disk' = [present |-> TRUE, docs |-> docs]
        /\ search_out' = NoResult
        /\ fm' = NoResult
        /\ UNCHANGED job_roles
        /\ UNCHANGED pure_vars
        /\ UNCHANGED app_vars
        /\ rebuilt' = NoResult

rebuild_cv_vector_store ==
    LET vectorstore == initialize_cv_vector_store(TRUE)
    IN  /\ VECTORSTORE' = vectorstore.mem
        /\ disk' = vectorstore.disk
        /\ search_out' = NoResult
        /\ fm' = NoResult
        /\ rebuilt' = [count |-> Len(ActiveRoles(job_roles))]
        /\ UNCHANGED job_roles
        /\ UNCHANGED pure_vars
        /\ UNCHANGED app_vars

\* the process restarts: the module is imported again, _VECTORSTORE = None
Restart ==
    /\ VECTORSTORE.present
    /\ VECTORSTORE' = NoStore
    /\ search_out' = NoResult
    /\ fm' = NoResult
    /\ UNCHANGED <<job_roles, disk>>
    /\ UNCHANGED pure_vars
    /\ UNCHANGED app_vars
    /\ rebuilt' = NoResult

\* the sequences of n distinct elements of S
RECURSIVE Arrangements(_, _)
Arrangements(S, n) ==
    IF n = 0 THEN {<< >>}
    ELSE UNION {{<<x>> \o q : q \in Arrangements(S \ {x}, n - 1)} : x \in S}

IsNonDecreasing(q) == \A i \in 1..(Len(q) - 1) : q[i] <= q[i + 1]

\* faulty variant: the search is not filtered to the chunks tagged "role"
Rankings_unfiltered(docs, k) ==
    LET idx == 1..Len(docs)
        n == Min(k, Cardinality(idx))
    IN  {[order |-> o, dist |-> d] :
            o \in Arrangements(idx, n),
            d \in {q \in [1..n -> Distances] : IsNonDecreasing(q)}}

\* What similarity_search_with_score(text, k=k, filter={"type": "role"}) may
\* answer: the indices of the k nearest chunks tagged "role" (all of them
\* when there are fewer), nearest first, with the distance of each.  Which
\* chunks are near is the embedding's choice.  (The index holds fewer chunks
\* than the library fetches before it filters.)
Rankings(docs, k) ==
    LET idx == {i \in 1..Len(docs) : docs[i].type = "role"}
        n == Min(k, Cardinality(idx))
    IN  {[order |-> o, dist |-> d] :
            o \in Arrangements(idx, n),
            d \in {q \in [1..n -> Distances] : IsNonDecreasing(q)}}

\* round(1 / (1 + distance) * 100, 2)
SimilarityScore(distance) == Cent * RoundDiv(10000, 1 + distance)

\* the loop that turns each (doc, distance) of the answer into a match
SearchMatches(docs, ranking) ==
    LET n == Len(ranking.order)
    IN  [j \in 1..n |->
            [role_id     |-> docs[ranking.order[j]].owner,
             match_score |-> SimilarityScore(ranking.dist[j]),
             reason      |-> <<"Semantic match based on resume embeddings.">>]]

\* the list match_candidate_to_roles returns; ok = FALSE: the embedding or the
\* search raised inside the try block
match_candidate_to_roles(docs, ranking, ok) ==
    IF ok THEN SearchMatches(docs, ranking) ELSE << >>

\* every list a call with this k may return, tagged with ok
SearchOutcomes(docs, k) ==
    {[ok |-> ok, matches |-> match_candidate_to_roles(docs, ranking, ok)] :
        ranking \in Rankings(docs, k), ok \in BOOLEAN}

\* a direct call of match_candidate_to_roles(text, k)
MatchCandidateToRoles ==
    \E k \in {1, DefaultK} :
        LET vectorstore == get_cv_vector_store
        IN  \E outcome \in SearchOutcomes(vectorstore.mem.docs, k) :
                /\ VECTORSTORE' = vectorstore.mem
                /\ disk' = vectorstore.disk
                /\ search_out' =
                     [k |-> k, ok |-> outcome.ok, matches |-> outcome.matches]
                /\ fm' = NoResult
                /\ UNCHANGED job_roles
                /\ UNCHANGED pure_vars
                /\ UNCHANGED app_vars
                /\ rebuilt' = NoResult

(***************************************************************************)
(* Job roles: routers/jobs.py                                              *)
(***************************************************************************)
\* Requests of create_job: the two skill lists, and the number of chunks the
\* rendered text of the role (title, department, description, skills) has.
\* stored_as_json: the database returns the non_negotiable_skills column of
\* the row as JSON text and not as a list (the readers test isinstance(.., str)).
JobPool ==
    { [non_negotiable_skills |-> <<S_Python, S_SQL>>,
       preferred_skills |-> <<S_Docker>>, text_chunks |-> 1,
       stored_as_json |-> FALSE],
      [non_negotiable_skills |-> <<S_Python_3>>,
       preferred_skills |-> << >>, text_chunks |-> 2,
       stored_as_json |-> TRUE] }

\* requests that differ in the length of the text only
IndexJobPool ==
    { [non_negotiable_skills |-> << >>, preferred_skills |-> << >>,
       text_chunks |-> n, stored_as_json |-> FALSE] : n \in ChunkCounts }

RECURSIVE TotalChunks(_)
TotalChunks(rows) ==
    IF rows = << >> THEN 0 ELSE Head(rows).text_chunks + TotalChunks(Tail(rows))

create_job(request) ==
    /\ Len(job_roles) < MaxRoles
    /\ TotalChunks(job_roles) + request.text_chunks <= MaxDocs
    /\ job_roles' = Append(job_roles,
            [id |-> Len(job_roles) + 1,
             is_active |-> TRUE,
             non_negotiable_skills |-> request.non_negotiable_skills,
             preferred_skills |-> request.preferred_skills,
             text_chunks |-> request.text_chunks,
             stored_as_json |-> request.stored_as_json])
    /\ search_out' = NoResult
    /\ fm' = NoResult
    /\ UNCHANGED <<VECTORSTORE, disk>>
    /\ UNCHANGED pure_vars
    /\ UNCHANGED app_vars
    /\ rebuilt' = NoResult

\* update_job with a request whose only field may be is_active (an Optional)
update_job(job_id, is_active) ==
    /\ \E i \in 1..Len(job_roles) : job_roles[i].id = job_id
    /\ is_active # NoneVal
    /\ job_roles' = [i \in 1..Len(job_roles) |->
            IF job_roles[i].id = job_id
            THEN [job_roles[i] EXCEPT !.is_active = is_active[1]]
            ELSE job_roles[i]]
    /\ search_out' = NoResult
    /\ fm' = NoResult
    /\ UNCHANGED <<VECTORSTORE, disk>>
    /\ UNCHANGED pure_vars
    /\ UNCHANGED app_vars
    /\ rebuilt' = NoResult

deactivate_job(job_id) ==
    /\ \E i \in 1..Len(job_roles) : job_roles[i].id = job_id
    /\ job_roles' = [i \in 1..Len(job_roles) |->
            IF job_roles[i].id = job_id
            THEN [job_roles[i] EXCEPT !.is_active = FALSE]
            ELSE job_roles[i]]
    /\ search_out' = NoResult
    /\ fm' = NoResult
    /\ UNCHANGED <<VECTORSTORE, disk>>
    /\ UNCHANGED pure_vars
    /\ UNCHANGED app_vars
    /\ rebuilt' = NoResult

RoleIds == 1..MaxRoles
CandidateIds == {1}

PureIdle ==
    /\ in_cand = << >>
    /\ in_req = << >>
    /\ in_pref = << >>
    /\ in_years = 0
    /\ in_other = << >>
    /\ elig_out = NoResult
    /\ score_out = NoResult

(***************************************************************************)
(* SpecIndex: the index service under every order of its operations.       *)
(***************************************************************************)
InitIndex == PureIdle /\ SysIdle

NextIndex ==
    \/ \E request \in IndexJobPool : create_job(request)
    \/ \E job_id \in RoleIds : deactivate_job(job_id)
    \/ \E job_id \in RoleIds : update_job(job_id, Some(TRUE))
    \/ \E i \in 1..Len(job_roles) : add_role_to_vector_store(job_roles[i])
    \/ \E c \in CandidateIds : add_resume_to_vector_store(c, 1)
    \/ rebuild_cv_vector_store
    \/ Restart
    \/ MatchCandidateToRoles

SpecIndex == InitIndex /\ [][NextIndex]_vars

(***************************************************************************)
(* The match aggregator: services/cv_matching.py, find_matching_roles      *)
(***************************************************************************)
\* parsed_data of the CVs that are matched; years_of_experience is whatever
\* number the stored JSON holds (it is not validated)
ParsedPool ==
    { [skills |-> [technical |-> <<S_python, S_docker, S_excel>>],
       years_of_experience |-> 5],
      [skills |-> [technical |-> <<S_python, S_sql_padded>>],
       years_of_experience |-> 0],
      [skills |-> [technical |-> <<S_excel>>],
       years_of_experience |-> -2] }

\* semantic_match_map.get(role_id), for the dict
\* {match["role_id"]: match for match in semantic_matches}: a later entry
\* with the same key replaces an earlier one
SemanticMatchGet(semantic_matches, role_id) ==
    LET idx == {j \in 1..Len(semantic_matches) :
                    semantic_matches[j].role_id = role_id}
    IN  IF idx = {} THEN NoneVal
        ELSE Some(semantic_matches[CHOOSE j \in idx : \A h \in idx : h <= j])

\* role.get('non_negotiable_skills', []) as the database returns it
RawSkills(job) ==
    IF job.stored_as_json THEN JsonDumps(job.non_negotiable_skills)
    ELSE job.non_negotiable_skills

\* the value after
\*   if isinstance(x, str): x = json.loads(x) if x else []
ParsedSkills(job) ==
    IF job.stored_as_json
    THEN (IF RawSkills(job) # << >> THEN JsonLoads(RawSkills(job)) ELSE << >>)
    ELSE RawSkills(job)

\* faulty variant: the two weights are exchanged
CombinedScore_swapped(semantic_match, score) ==
    IF semantic_match # NoneVal
    THEN (semantic_match[1].match_score * 6) \div 10 + (score * 4) \div 10
    ELSE score

\* (semantic_match["match_score"] * 0.4) + (score * 0.6), or score alone
CombinedScore(semantic_match, score) ==
    IF semantic_match # NoneVal
    THEN (semantic_match[1].match_score * 4) \div 10 + (score * 6) \div 10
    ELSE score

\* the entry appended for a role when parsed_data is given
RuleBasedResult(role, parsed_data, semantic_match) ==
    LET candidate_skills == parsed_data.skills.technical
        candidate_experience ==
            [years_of_experience |-> parsed_data.years_of_experience]
        r == calculate_match_score(candidate_skills,
                                   ParsedSkills(role),
                                   role.preferred_skills,
                                   candidate_experience)
        has_all_required == Len(r.missing_non_negotiable) = 0
        combined_score == CombinedScore(semantic_match, r.score)
    IN  [role_id        |-> role.id,
         match_score    |-> Round2(combined_score),
         reason         |->
            IF semantic_match # NoneVal
            THEN <<"Semantic", semantic_match[1].match_score,
                   "Rule-based", r.score, r.reason>>
            ELSE <<"Rule-based", r.reason>>,
         semantic_score |->
            IF semantic_match # NoneVal
            THEN Some(semantic_match[1].match_score) ELSE NoneVal,
         rule_based_score |-> Some(r.score),
         matched_non_negotiable_skills |-> r.matched_non_negotiable,
         matched_preferred_skills      |-> r.matched_preferred,
         missing_non_negotiable_skills |-> r.missing_non_negotiable,
         has_all_required_skills |-> has_all_required,
         is_eligible |-> has_all_required /\ combined_score >= Points(50)]

\* the entry appended for a role with a semantic hit when parsed_data is
\* absent; the required skills are passed on as the database returned them
SemanticOnlyResult(role, semantic_match) ==
    [role_id        |-> role.id,
     match_score    |-> Round2(semantic_match.match_score),
     reason         |-> semantic_match.reason,
     semantic_score |-> Some(semantic_match.match_score),
     rule_based_score |-> NoneVal,
     matched_non_negotiable_skills |-> << >>,
     matched_preferred_skills      |-> << >>,
     missing_non_negotiable_skills |-> RawSkills(role),
     has_all_required_skills |-> FALSE,
     is_eligible |-> semantic_match.match_score >= Points(50)]

\* faulty variant: a role without match data is reported with a zero rule-based score
NoDataResult_scored(role) ==
    [role_id        |-> role.id,
     match_score    |-> 0,
     reason         |-> <<"No CV data for matching">>,
     semantic_score |-> NoneVal,
     rule_based_score |-> Some(0),
     matched_non_negotiable_skills |-> << >>,
     matched_preferred_skills      |-> << >>,
     missing_non_negotiable_skills |-> ParsedSkills(role),
     has_all_required_skills |-> FALSE,
     is_eligible |-> FALSE]

\* the entry appended for a role with no semantic hit when parsed_data is absent
NoDataResult(role) ==
    [role_id        |-> role.id,
     match_score    |-> 0,
     reason         |-> <<"No CV data for matching">>,
     semantic_score |-> NoneVal,
     rule_based_score |-> NoneVal,
     matched_non_negotiable_skills |-> << >>,
     matched_preferred_skills      |-> << >>,
     missing_non_negotiable_skills |-> ParsedSkills(role),
     has_all_required_skills |-> FALSE,
     is_eligible |-> FALSE]

\* faulty variant: only the roles the semantic search returned are reported
SemanticBranch_hits_only(active_roles, semantic_matches) ==
    LET hit == [i \in 1..Len(active_roles) |->
                  SemanticMatchGet(semantic_matches, active_roles[i].id) # NoneVal]
    IN  SelectSeqBy(
            [i \in 1..Len(active_roles) |->
                IF hit[i]
                THEN SemanticOnlyResult(active_roles[i],
                        SemanticMatchGet(semantic_matches, active_roles[i].id)[1])
                ELSE NoDataResult(active_roles[i])],
            hit)

\* the loop over active_roles when parsed_data is absent
SemanticBranch(active_roles, semantic_matches) ==
    [i \in 1..Len(active_roles) |->
        LET semantic_match ==
                SemanticMatchGet(semantic_matches, active_roles[i].id)
        IN  IF semantic_match # NoneVal
            THEN SemanticOnlyResult(active_roles[i], semantic_match[1])
            ELSE NoDataResult(active_roles[i])]

\* the loop over active_roles when parsed_data is given
RuleBranch(active_roles, parsed_data, semantic_matches) ==
    [i \in 1..Len(active_roles) |->
        RuleBasedResult(active_roles[i], parsed_data,
                        SemanticMatchGet(semantic_matches, active_roles[i].id))]

\* faulty variant: an entry is put before the entries of equal score
InsertByScore_unstable(sorted, x) ==
    LET before == {j \in 1..Len(sorted) : sorted[j].match_score > x.match_score}
        n == Cardinality(before)
    IN  SubSeq(sorted, 1, n) \o <<x>> \o SubSeq(sorted, n + 1, Len(sorted))

\* x put into a list sorted by match_score descending, after the entries of
\* greater or equal score
InsertByScore(sorted, x) ==
    LET before == {j \in 1..Len(sorted) : sorted[j].match_score >= x.match_score}
        n == Cardinality(before)
    IN  SubSeq(sorted, 1, n) \o <<x>> \o SubSeq(sorted, n + 1, Len(sorted))

\* matched_roles.sort(key=lambda x: x["match_score"], reverse=True)
RECURSIVE SortByScoreDesc(_)
SortByScoreDesc(matched_roles) ==
    IF matched_roles = << >> THEN << >>
    ELSE InsertByScore(
            SortByScoreDesc(SubSeq(matched_roles, 1, Len(matched_roles) - 1)),
            matched_roles[Len(matched_roles)])

\* the list find_matching_roles returns, given what the queries returned;
\* parsed_data is an Optional
find_matching_roles(active_roles, parsed_data, semantic_matches) ==
    IF active_roles = << >> THEN << >>
    ELSE IF parsed_data # NoneVal
    THEN SortByScoreDesc(RuleBranch(active_roles, parsed_data[1], semantic_matches))
    ELSE SortByScoreDesc(SemanticBranch(active_roles, semantic_matches))

\* a call of find_matching_roles without resume text: no search is made
FindMatchingRolesNoText ==
    \E parsed_data \in {NoneVal} \cup {Some(p) : p \in ParsedPool} :
        /\ fm' = [resume_text |-> FALSE,
                  parsed_data |-> parsed_data,
                  ok |-> TRUE,
                  semantic_matches |-> << >>,
                  out |-> find_matching_roles(ActiveRoles(job_roles),
                                              parsed_data, << >>)]
        /\ search_out' = NoResult
        /\ UNCHANGED <<job_roles, VECTORSTORE, disk>>
        /\ UNCHANGED pure_vars
        /\ UNCHANGED app_vars
        /\ rebuilt' = NoResult

\* a call of find_matching_roles with resume text: the index is searched with
\* k = min(5, len(active_roles))
FindMatchingRolesWithText ==
    LET active_roles == ActiveRoles(job_roles)
        vectorstore == get_cv_vector_store
        outcomes == SearchOutcomes(vectorstore.mem.docs,
                                   Min(DefaultK, Len(active_roles)))
    IN  \E parsed_data \in {NoneVal} \cup {Some(p) : p \in ParsedPool},
           outcome \in outcomes :
            /\ active_roles # << >>
            /\ fm' = [resume_text |-> TRUE,
                      parsed_data |-> parsed_data,
                      ok |-> outcome.ok,
                      semantic_matches |-> outcome.matches,
                      out |-> find_matching_roles(active_roles, parsed_data,
                                                  outcome.matches)]
            /\ VECTORSTORE' = vectorstore.mem
            /\ disk' = vectorstore.disk
            /\ search_out' = NoResult
            /\ UNCHANGED job_roles
            /\ UNCHANGED pure_vars
            /\ UNCHANGED app_vars
            /\ rebuilt' = NoResult

\* a call of find_matching_roles with resume text when no role is active: the
\* function returns before it searches
FindMatchingRolesNoRoles ==
    \E parsed_data \in {NoneVal} \cup {Some(p) : p \in ParsedPool} :
        /\ ActiveRoles(job_roles) = << >>
        /\ fm' = [resume_text |-> TRUE,
                  parsed_data |-> parsed_data,
                  ok |-> TRUE,
                  semantic_matches |-> << >>,
                  out |-> << >>]
        /\ search_out' = NoResult
        /\ UNCHANGED <<job_roles, VECTORSTORE, disk>>
        /\ UNCHANGED pure_vars
        /\ UNCHANGED app_vars
        /\ rebuilt' = NoResult

(***************************************************************************)
(* Spec: the job endpoints and the matching request.                       *)
(***************************************************************************)
Init == PureIdle /\ SysIdle

Next ==
    \/ \E request \in JobPool : create_job(request)
    \/ \E job_id \in RoleIds : deactivate_job(job_id)
    \/ \E job_id \in RoleIds : update_job(job_id, Some(TRUE))
    \/ FindMatchingRolesNoText
    \/ FindMatchingRolesWithText
    \/ FindMatchingRolesNoRoles

Spec == Init /\ [][Next]_vars

\* the row of job_roles with this id
RoleById(role_id) ==
    job_roles[CHOOSE i \in 1..Len(job_roles) : job_roles[i].id = role_id]

\* position of a role in the result of the active-roles query
QueryPosition(role_id) ==
    CHOOSE i \in 1..Len(job_roles) : job_roles[i].id = role_id

\* the technical skills of the CV of the last call; none without parsed data
CalledSkills ==
    IF fm.parsed_data = NoneVal THEN << >>
    ELSE fm.parsed_data[1].skills.technical

(***************************************************************************)
(* C2: in every MatchResult, has_all_required_skills is the verdict        *)
(* check_eligibility gives for the candidate's technical skills and the    *)
(* role's required skills (exact match after lowercasing and trimming).    *)
(***************************************************************************)
C2_FlagIsEligibilityVerdict ==
    fm # NoResult =>
        \A j \in 1..Len(fm.out) :
            fm.out[j].has_all_required_skills =
                check_eligibility(CalledSkills,
                    RoleById(fm.out[j].role_id).non_negotiable_skills).eligible

(***************************************************************************)
(* C3: in every MatchResult, is_eligible is true exactly when              *)
(* has_all_required_skills is true and the combined score is at least 50.  *)
(***************************************************************************)
C3_EligibleIffSkillsAndScore ==
    fm # NoResult =>
        \A j \in 1..Len(fm.out) :
            fm.out[j].is_eligible =
                (/\ fm.out[j].has_all_required_skills
                 /\ fm.out[j].match_score >= Points(50))

(***************************************************************************)
(* C5: find_matching_roles returns exactly one MatchResult per active      *)
(* role, and none for another role, whatever the inputs and whatever the   *)
(* semantic search returned.                                               *)
(***************************************************************************)
C5_OneResultPerActiveRole ==
    fm # NoResult =>
        /\ Len(fm.out) = Cardinality({i \in 1..Len(job_roles) : job_roles[i].is_active})
        /\ \A i \in 1..Len(job_roles) :
              Cardinality({j \in 1..Len(fm.out) : fm.out[j].role_id = job_roles[i].id})
                 = IF job_roles[i].is_active THEN 1 ELSE 0

\* two active roles, a search that returned a hit for one of them only, no
\* parsed data
C5_Witness ==
    /\ fm # NoResult
    /\ fm.resume_text
    /\ fm.parsed_data = NoneVal
    /\ Len(fm.out) = 2
    /\ Len(fm.semantic_matches) > 0
    /\ \E j \in 1..2 : fm.out[j].semantic_score = NoneVal
    /\ \E j \in 1..2 : fm.out[j].semantic_score # NoneVal

(***************************************************************************)
(* C6: the returned list is ordered by match_score descending, and two     *)
(* entries of equal score keep the order of the active-roles query.        *)
(***************************************************************************)
C6_SortedDescendingAndStable ==
    fm # NoResult =>
        \A a, b \in 1..Len(fm.out) :
            a < b =>
                /\ fm.out[a].match_score >= fm.out[b].match_score
                /\ (fm.out[a].match_score = fm.out[b].match_score
                      => QueryPosition(fm.out[a].role_id)
                            < QueryPosition(fm.out[b].role_id))

\* two roles tie on a score above zero
C6_Witness ==
    /\ fm # NoResult
    /\ Len(fm.out) = 2
    /\ fm.out[1].match_score = fm.out[2].match_score
    /\ fm.out[1].match_score > 0

(***************************************************************************)
(* C8: the semantic result has at most one entry per role id, and the      *)
(* entry find_matching_roles uses for a role is the nearest (highest       *)
(* score) of the hits of that role.                                        *)
(***************************************************************************)
C8_OneNearestHitPerRole ==
    fm # NoResult =>
        /\ \A a, b \in 1..Len(fm.semantic_matches) :
              a # b => fm.semantic_matches[a].role_id # fm.semantic_matches[b].role_id
        /\ \A j \in 1..Len(fm.out) :
              \A a \in 1..Len(fm.semantic_matches) :
                 fm.semantic_matches[a].role_id = fm.out[j].role_id
                    => /\ fm.out[j].semantic_score # NoneVal
                       /\ fm.out[j].semantic_score[1]
                             >= fm.semantic_matches[a].match_score

(***************************************************************************)
(* C10: called with neither resume text nor parsed data, every active role *)
(* gets an entry with match_score 0, reason "No CV data for matching",     *)
(* is_eligible false and no semantic and no rule-based score.              *)
(***************************************************************************)
C10_NoCvData ==
    (fm # NoResult /\ ~fm.resume_text /\ fm.parsed_data = NoneVal) =>
        /\ \A i \in 1..Len(job_roles) :
              job_roles[i].is_active
                 => \E j \in 1..Len(fm.out) : fm.out[j].role_id = job_roles[i].id
        /\ \A j \in 1..Len(fm.out) :
              /\ fm.out[j].match_score = 0
              /\ fm.out[j].reason = <<"No CV data for matching">>
              /\ fm.out[j].is_eligible = FALSE
              /\ fm.out[j].semantic_score = NoneVal
              /\ fm.out[j].rule_based_score = NoneVal

\* the call without CV data, with two active roles
C10_Witness ==
    /\ fm # NoResult
    /\ ~fm.resume_text
    /\ fm.parsed_data = NoneVal
    /\ Len(fm.out) = 2

(***************************************************************************)
(* C7: upserting a role replaces its chunks: whatever calls of             *)
(* add_role_to_vector_store were made, the index holds for each role id    *)
(* exactly one copy of the chunks of the role's text or none, in memory    *)
(* and on disk.                                                            *)
(***************************************************************************)
C7_UpsertReplacesChunks ==
    \A i \in 1..Len(job_roles) :
        /\ RoleChunkCount(VECTORSTORE.docs, job_roles[i].id)
              \in {0, job_roles[i].text_chunks}
        /\ RoleChunkCount(disk.docs, job_roles[i].id)
              \in {0, job_roles[i].text_chunks}

(***************************************************************************)
(* C9: a search of an index that holds no chunk tagged "role" returns the  *)
(* empty list.                                                             *)
(***************************************************************************)
NoRoleChunk(docs) == \A i \in 1..Len(docs) : docs[i].type # "role"

C9_EmptyIndexSearchIsEmpty ==
    (search_out # NoResult /\ NoRoleChunk(VECTORSTORE.docs))
        => search_out.matches = << >>

\* a search that did not fail, of an index that holds a resume chunk and no
\* role chunk while the database has an active role
C9_Witness ==
    /\ search_out # NoResult
    /\ search_out.ok
    /\ search_out.matches = << >>
    /\ NoRoleChunk(VECTORSTORE.docs)
    /\ \E i \in 1..Len(VECTORSTORE.docs) : VECTORSTORE.docs[i].type = "resume"
    /\ ActiveRoles(job_roles) # << >>

(***************************************************************************)
(* CVs and applications: routers/cvs.py, routers/applications.py           *)
(***************************************************************************)
MaxCvs == 2       \* rows of cvs

K_technical == <<"t","e","c","h","n","i","c","a","l">>
K_soft      == <<"s","o","f","t">>
K_languages == <<"l","a","n","g","u","a","g","e","s">>

\* the "skills" value of a parsed CV: the object the parser asks the LLM for
\* (its keys in order, and the list under "technical"), or a flat list
SkillsDict(technical) ==
    [is_dict |-> TRUE, keys |-> <<K_technical, K_soft, K_languages>>,
     technical |-> technical]
SkillsList(items) == [is_dict |-> FALSE, items |-> items]

\* parsed_data of the CVs that are uploaded
CvParsedPool ==
    { [skills |-> SkillsDict(<<S_python, S_sql_padded>>)],
      [skills |-> SkillsList(<<S_python, S_sql_padded>>)] }

\* the id the database gives a new row of cvs: one no stored row has
NewCvId ==
    CHOOSE n \in 1..(Len(cvs) + 1) :
        /\ \A i \in 1..Len(cvs) : cvs[i].id # n
        /\ \A m \in 1..(n - 1) : \E i \in 1..Len(cvs) : cvs[i].id = m

\* the rows of cvs with this id
CvRows(cv_id) == {i \in 1..Len(cvs) : cvs[i].id = cv_id}

\* POST /cvs/upload: the row is stored unparsed; the first CV is primary.
\* parse_task is not a column: it tells whether the task created by
\* asyncio.create_task(parse_cv_background()) has run
upload_cv(is_primary) ==
    LET unset == [i \in 1..Len(cvs) |->
                    IF is_primary THEN [cvs[i] EXCEPT !.is_primary = FALSE]
                    ELSE cvs[i]]
    IN  /\ Len(cvs) < MaxCvs
        /\ cvs' = Append(unset,
                [id |-> NewCvId,
                 is_primary |-> (is_primary \/ cvs = << >>),
                 parsing_status |-> "pending",
                 parsed_data |-> NoneVal,
                 parse_task |-> "created"])
        /\ recheck_out' = NoResult
        /\ search_out' = NoResult
        /\ fm' = NoResult
        /\ rebuilt' = NoResult
        /\ UNCHANGED <<job_roles, VECTORSTORE, disk, applications>>
        /\ UNCHANGED pure_vars
        /\ UNCHANGED ext_vars

\* parse_cv_background of upload_cv.  parsed = NoneVal: no text could be
\* extracted, or parsing raised.  index_ok = FALSE: add_resume_to_vector_store
\* raised after it got the store (the error is printed and parsing goes on).
parse_cv_background(cv_id, parsed, index_ok) ==
    LET vectorstore == get_cv_vector_store
        docs == vectorstore.mem.docs \o <<ResumeDoc(1, 1)>>
        indexed == parsed # NoneVal /\ index_ok
    IN  /\ cv_id \in 1..Len(cvs)
        /\ cvs[cv_id].parse_task = "created"
        /\ indexed => Len(docs) <= MaxDocs
        /\ cvs' = [cvs EXCEPT ![cv_id] =
                IF parsed = NoneVal
                THEN [@ EXCEPT !.parsing_status = "failed",
                               !.parse_task = "finished"]
                ELSE [@ EXCEPT !.parsing_status = "completed",
                               !.parsed_data = parsed,
                               !.parse_task = "finished"]]
        /\ VECTORSTORE' =
              IF parsed = NoneVal THEN VECTORSTORE
              ELSE IF indexed THEN [present |-> TRUE, docs |-> docs]
              ELSE vectorstore.mem
        /\ disk' =
              IF parsed = NoneVal THEN disk
              ELSE IF indexed THEN [present |-> TRUE, docs |-> docs]
              ELSE vectorstore.disk
        /\ recheck_out' = NoResult
        /\ search_out' = NoResult
        /\ fm' = NoResult
        /\ rebuilt' = NoResult
        /\ UNCHANGED <<job_roles, applications>>
        /\ UNCHANGED pure_vars
        /\ UNCHANGED ext_vars

\* create_application: cv_skills, taken from the nested structure
CreateSkills(parsed_data) ==
    IF parsed_data.skills.is_dict THEN parsed_data.skills.technical
    ELSE parsed_data.skills.items

\* create_application: eligibility_passed and eligibility_details for the CV
\* row cv_data (an Optional) and the role
EligibilityAtCreation(cv_data, job) ==
    IF cv_data # NoneVal /\ cv_data[1].parsed_data # NoneVal
    THEN LET eligibility_result ==
                check_eligibility(CreateSkills(cv_data[1].parsed_data[1]),
                                  ParsedSkills(job))
         IN  [passed |-> eligibility_result.eligible,
              details |-> eligibility_result]
    ELSE [passed |-> TRUE,
          details |-> [matched_skills |-> << >>,
                       missing_skills |-> << >>,
                       explanation |-> <<"No CV data for eligibility check">>]]

\* the CV create_application uses: the one asked for, else the primary one
SelectedCv(cv_id) ==
    IF cv_id # NoneVal THEN Some(cvs[CHOOSE i \in CvRows(cv_id[1]) : TRUE])
    ELSE LET primary == {i \in 1..Len(cvs) : cvs[i].is_primary}
         IN  IF primary = {} THEN NoneVal
             ELSE Some(cvs[CHOOSE i \in primary : \A h \in primary : i <= h])

\* POST /applications; a request answered 404 or 400 changes nothing
create_application(job_role_id, cv_id) ==
    /\ \E i \in 1..Len(job_roles) :
          job_roles[i].id = job_role_id /\ job_roles[i].is_active
    /\ \A a \in 1..Len(applications) : applications[a].job_role_id # job_role_id
    /\ cv_id # NoneVal => CvRows(cv_id[1]) # {}
    /\ LET job == job_roles[CHOOSE i \in 1..Len(job_roles) :
                                job_roles[i].id = job_role_id]
           cv_data == SelectedCv(cv_id)
           e == EligibilityAtCreation(cv_data, job)
       IN  applications' = Append(applications,
                [id |-> Len(applications) + 1,
                 job_role_id |-> job_role_id,
                 cv_id |-> IF cv_data # NoneVal THEN Some(cv_data[1].id) ELSE NoneVal,
                 status |-> "applied",
                 eligibility_check_passed |-> e.passed,
                 eligibility_details |-> e.details])
    /\ recheck_out' = NoResult
    /\ search_out' = NoResult
    /\ fm' = NoResult
    /\ rebuilt' = NoResult
    /\ UNCHANGED <<job_roles, VECTORSTORE, disk, cvs>>
    /\ UNCHANGED pure_vars
    /\ UNCHANGED ext_vars

\* recheck_eligibility: cv_skills = parsed_data.get('skills', []); the list
\* comprehension of check_eligibility iterates a dict by its keys
RecheckSkills(parsed_data) ==
    IF parsed_data = NoneVal THEN << >>
    ELSE IF parsed_data[1].skills.is_dict THEN parsed_data[1].skills.keys
    ELSE parsed_data[1].skills.items

\* recheck_eligibility: job.get('non_negotiable_skills', []) is not decoded;
\* the loop of check_eligibility iterates a text by its characters
RecheckRequired(job) ==
    IF job.stored_as_json THEN IterChars(RawSkills(job)) ELSE RawSkills(job)

\* POST /applications/{id}/check-eligibility
recheck_eligibility(application_id) ==
    /\ application_id \in 1..Len(applications)
    /\ applications[application_id].cv_id # NoneVal
    /\ LET app == applications[application_id]
           cv_data == cvs[app.cv_id[1]]
           job == job_roles[CHOOSE i \in 1..Len(job_roles) :
                                job_roles[i].id = app.job_role_id]
           eligibility_result ==
                check_eligibility(RecheckSkills(cv_data.parsed_data),
                                  RecheckRequired(job))
       IN  /\ applications' = [applications EXCEPT ![application_id] =
                    [@ EXCEPT !.eligibility_check_passed = eligibility_result.eligible,
                              !.eligibility_details = eligibility_result]]
           /\ recheck_out' = [application_id |-> application_id,
                              result |-> eligibility_result]
    /\ search_out' = NoResult
    /\ fm' = NoResult
    /\ rebuilt' = NoResult
    /\ UNCHANGED <<job_roles, VECTORSTORE, disk, cvs>>
    /\ UNCHANGED pure_vars
    /\ UNCHANGED ext_vars

(***************************************************************************)
(* SpecApply: roles, CVs and applications of one candidate.                *)
(***************************************************************************)
InitApply == PureIdle /\ SysIdle

NextApply ==
    \/ \E request \in JobPool : create_job(request)
    \/ \E job_id \in RoleIds : deactivate_job(job_id)
    \/ \E job_id \in RoleIds : update_job(job_id, Some(TRUE))
    \/ \E is_primary \in BOOLEAN : upload_cv(is_primary)
    \/ \E cv_id \in 1..MaxCvs, index_ok \in BOOLEAN :
          \E parsed \in {NoneVal} \cup {Some(x) : x \in CvParsedPool} :
              parse_cv_background(cv_id, parsed, index_ok)
    \/ \E job_id \in RoleIds :
          \E cv_id \in {NoneVal} \cup {Some(c) : c \in 1..MaxCvs} :
              create_application(job_id, cv_id)
    \/ \E application_id \in 1..MaxRoles : recheck_eligibility(application_id)

SpecApply == InitApply /\ [][NextApply]_vars

(***************************************************************************)
(* C11: for the same stored CV parsed data and the same stored required    *)
(* list, recheck_eligibility reaches the verdict create_application        *)
(* reaches: eligible, matched, missing and explanation are equal.          *)
(***************************************************************************)
C11_CallSitesAgree ==
    (/\ recheck_out # NoResult
     /\ cvs[applications[recheck_out.application_id].cv_id[1]].parsed_data # NoneVal)
    => LET app == applications[recheck_out.application_id]
           job == RoleById(app.job_role_id)
           e == EligibilityAtCreation(Some(cvs[app.cv_id[1]]), job)
       IN  /\ recheck_out.result.eligible = e.passed
           /\ recheck_out.result.matched_skills = e.details.matched_skills
           /\ recheck_out.result.missing_skills = e.details.missing_skills
           /\ recheck_out.result.explanation = e.details.explanation

(***************************************************************************)
(* C12: create_application stores a new application only when the          *)
(* eligibility check on the selected or primary CV passes.                 *)
(***************************************************************************)
C12_OnlyEligibleApplicationsStored ==
    [][Len(applications') > Len(applications)
          => applications'[Len(applications')].eligibility_check_passed]_vars

(***************************************************************************)
(* C13: a match never references an inactive role: after any sequence of   *)
(* create_job, update_job and deactivate_job, every MatchResult of         *)
(* find_matching_roles has the id of a role that is active when the query  *)
(* is made.                                                                *)
(***************************************************************************)
C13_NoInactiveRoleMatched ==
    fm # NoResult =>
        \A j \in 1..Len(fm.out) : RoleById(fm.out[j].role_id).is_active

\* the index still holds the chunk of a deactivated role and the search
\* returned it, while the output lists the active role only
C13_Witness ==
    /\ fm # NoResult
    /\ Len(fm.out) = 1
    /\ \E i \in 1..Len(job_roles) :
          /\ ~job_roles[i].is_active
          /\ \E h \in 1..Len(fm.semantic_matches) :
                fm.semantic_matches[h].role_id = job_roles[i].id

(***************************************************************************)
(* SpecMono: calculate_match_score applied to two candidate lists with the *)
(* same required list, preferred list and years of experience.             *)
(***************************************************************************)
MonoCandPool == {S_python, S_docker}
MonoReqPool == {S_Python, S_Docker}
MonoYearsPool == {0, 12}

InitMono ==
    /\ in_cand \in SeqsUpTo(MonoCandPool, MaxCand)
    /\ in_other \in SeqsUpTo(MonoCandPool, MaxCand)
    /\ in_req \in SeqsUpTo(MonoReqPool, MaxReq)
    /\ in_pref \in SeqsUpTo(PrefPool, MaxPref)
    /\ in_years \in MonoYearsPool
    /\ elig_out = NoResult
    /\ score_out = NoResult
    /\ SysIdle

CallCalculateMatchScoreTwice ==
    /\ score_out = NoResult
    /\ score_out' =
          [first  |-> calculate_match_score(in_cand, in_req, in_pref,
                                            [years_of_experience |-> in_years]),
           second |-> calculate_match_score(in_other, in_req, in_pref,
                                            [years_of_experience |-> in_years])]
    /\ UNCHANGED <<in_cand, in_req, in_pref, in_years, in_other, elig_out>>
    /\ UNCHANGED sys_vars

NextMono == CallCalculateMatchScoreTwice

SpecMono == InitMono /\ [][NextMono]_vars

\* every label of the list a occurs in the list b
AllIn(a, b) == \A i \in 1..Len(a) : InList(a[i], b)

(***************************************************************************)
(* C14: with the required list, the preferred list and the years fixed, a  *)
(* candidate list that matches a superset of the required and preferred    *)
(* skills another list matches never gets a lower score.                   *)
(***************************************************************************)
C14_ScoreMonotone ==
    score_out # NoResult =>
        ((/\ AllIn(score_out.first.matched_non_negotiable,
                   score_out.second.matched_non_negotiable)
          /\ AllIn(score_out.first.matched_preferred,
                   score_out.second.matched_preferred))
            => score_out.first.score <= score_out.second.score)

\* the second list matches one more required and one more preferred skill,
\* and scores strictly higher
C14_Witness ==
    /\ score_out # NoResult
    /\ Len(in_req) = 2
    /\ Len(score_out.first.matched_non_negotiable) = 1
    /\ Len(score_out.second.matched_non_negotiable) = 2
    /\ Len(score_out.first.matched_preferred) = 0
    /\ Len(score_out.second.matched_preferred) = 1
    /\ in_cand # << >>
    /\ score_out.first.score < score_out.second.score

(***************************************************************************)
(* C15: the match_score of every MatchResult lies in [0, 100].             *)
(***************************************************************************)
C15_ScoreInRange ==
    fm # NoResult =>
        \A j \in 1..Len(fm.out) :
            /\ fm.out[j].match_score >= 0
            /\ fm.out[j].match_score <= Points(100)

\* the scores of the semantic hits the search returned for a role
HitScores(role_id) ==
    {fm.semantic_matches[h].match_score : h \in
        {h \in 1..Len(fm.semantic_matches) :
            fm.semantic_matches[h].role_id = role_id}}

\* the rule-based score of the CV of the last call for a role
CalledRuleScore(role_id) ==
    calculate_match_score(CalledSkills,
        RoleById(role_id).non_negotiable_skills,
        RoleById(role_id).preferred_skills,
        [years_of_experience |-> fm.parsed_data[1].years_of_experience]).score

(***************************************************************************)
(* C16 as stated: with parsed skills, the match_score of a role is         *)
(* semantic*0.4 + ruleBased*0.6 when a semantic hit exists for the role    *)
(* and ruleBased alone otherwise, and semantic_score is null exactly when  *)
(* there is no hit.                                                        *)
(***************************************************************************)
C16_BlendExact ==
    (fm # NoResult /\ fm.parsed_data # NoneVal) =>
        \A j \in 1..Len(fm.out) :
            LET e == fm.out[j]
                rule == CalledRuleScore(e.role_id)
            IN  /\ e.rule_based_score = Some(rule)
                /\ (e.semantic_score = NoneVal) = (HitScores(e.role_id) = {})
                /\ e.semantic_score # NoneVal =>
                      /\ e.semantic_score[1] \in HitScores(e.role_id)
                      /\ 10 * e.match_score = 4 * e.semantic_score[1] + 6 * rule
                /\ e.semantic_score = NoneVal => e.match_score = rule

(***************************************************************************)
(* C16 amended: with parsed skills, the match_score of a role is           *)
(* semantic*0.4 + ruleBased*0.6 rounded to two decimals when a semantic    *)
(* hit exists for the role and ruleBased rounded to two decimals           *)
(* otherwise, and semantic_score is null exactly when there is no hit.     *)
(***************************************************************************)
C16_BlendRounded ==
    (fm # NoResult /\ fm.parsed_data # NoneVal) =>
        \A j \in 1..Len(fm.out) :
            LET e == fm.out[j]
                rule == CalledRuleScore(e.role_id)
            IN  /\ e.rule_based_score = Some(rule)
                /\ (e.semantic_score = NoneVal) = (HitScores(e.role_id) = {})
                /\ e.semantic_score # NoneVal =>
                      /\ e.semantic_score[1] \in HitScores(e.role_id)
                      /\ e.match_score =
                            Round2((4 * e.semantic_score[1] + 6 * rule) \div 10)
                /\ e.semantic_score = NoneVal => e.match_score = Round2(rule)

\* a call with parsed skills and resume text where one role has a semantic
\* hit, its blend is not a whole number of hundredths, and the other role
\* has no hit
C16_Witness ==
    /\ fm # NoResult
    /\ fm.parsed_data # NoneVal
    /\ fm.resume_text
    /\ Len(fm.out) = 2
    /\ \E j \in 1..2 : fm.out[j].semantic_score = NoneVal
    /\ \E j \in 1..2 :
          /\ fm.out[j].semantic_score # NoneVal
          /\ 10 * fm.out[j].match_score
                # 4 * fm.out[j].semantic_score[1] + 6 * fm.out[j].rule_based_score[1]

(***************************************************************************)
(* C17: when only resume text is present, the score of each role is its    *)
(* semantic score alone, or 0 with the explanatory reason when the role    *)
(* has no semantic hit; rule_based_score is null and the missing-skills    *)
(* list is the role's full required list, as a list, also when the stored  *)
(* value is a JSON string.                                                 *)
(***************************************************************************)
C17_ResumeOnly ==
    (fm # NoResult /\ fm.parsed_data = NoneVal /\ fm.resume_text) =>
        \A j \in 1..Len(fm.out) :
            LET e == fm.out[j]
            IN  /\ e.rule_based_score = NoneVal
                /\ e.missing_non_negotiable_skills =
                      RoleById(e.role_id).non_negotiable_skills
                /\ HitScores(e.role_id) # {} =>
                      /\ e.semantic_score # NoneVal
                      /\ e.semantic_score[1] \in HitScores(e.role_id)
                      /\ e.match_score = e.semantic_score[1]
                /\ HitScores(e.role_id) = {} =>
                      /\ e.semantic_score = NoneVal
                      /\ e.match_score = 0
                      /\ e.reason = <<"No CV data for matching">>

\* a label after lowercasing and trimming
Normalized(label) == Strip(Lower(label))

\* some normalized candidate skill is a substring of the normalized skill,
\* or the normalized skill is a substring of some normalized candidate skill
NormalizedMatch(skill, candidate_skills) ==
    \E j \in 1..Len(candidate_skills) :
        \/ Contains(Normalized(skill), Normalized(candidate_skills[j]))
        \/ Contains(Normalized(candidate_skills[j]), Normalized(skill))

(***************************************************************************)
(* C18: calculate_match_score matches a required or preferred skill if and *)
(* only if, after lowercasing and trimming every label, some candidate     *)
(* skill is a substring of it or it is a substring of some candidate       *)
(* skill; so labels that differ only in case or surrounding whitespace     *)
(* match.                                                                  *)
(***************************************************************************)
C18_NormalizedSubstringMatch ==
    score_out # NoResult =>
        /\ \A i \in 1..Len(in_req) :
              InList(in_req[i], score_out.matched_non_negotiable)
                 <=> NormalizedMatch(in_req[i], in_cand)
        /\ \A i \in 1..Len(in_pref) :
              InList(in_pref[i], score_out.matched_preferred)
                 <=> NormalizedMatch(in_pref[i], in_cand)

\* xs is a and b merged, each keeping its own order
RECURSIVE IsMerge(_, _, _)
IsMerge(xs, a, b) ==
    IF xs = << >> THEN a = << >> /\ b = << >>
    ELSE \/ a # << >> /\ Head(a) = Head(xs) /\ IsMerge(Tail(xs), Tail(a), b)
         \/ b # << >> /\ Head(b) = Head(xs) /\ IsMerge(Tail(xs), a, Tail(b))

(***************************************************************************)
(* C19: the matched-required and missing-required lists partition the      *)
(* required list: every required skill is in exactly one of them, with its *)
(* original text and in input order; matched-preferred is a sublist of the *)
(* preferred list; and the matched counts used in the score are the        *)
(* lengths of the matched lists.                                           *)
(***************************************************************************)
C19_ListsPartitionRequired ==
    score_out # NoResult =>
        /\ IsMerge(in_req, score_out.matched_non_negotiable,
                           score_out.missing_non_negotiable)
        /\ \A i \in 1..Len(in_req) :
              InList(in_req[i], score_out.matched_non_negotiable)
                 # InList(in_req[i], score_out.missing_non_negotiable)
        /\ \E rest \in SeqsUpTo(PrefPool, Len(in_pref)) :
              IsMerge(in_pref, score_out.matched_preferred, rest)
        /\ score_out.reason.matched_required =
              Len(score_out.matched_non_negotiable)
        /\ score_out.reason.matched_preferred =
              Len(score_out.matched_preferred)
        /\ score_out.score =
              RatioScore(Len(score_out.matched_non_negotiable), Len(in_req), 50)
              + RatioScore(Len(score_out.matched_preferred), Len(in_pref), 30)
              + ExperienceScore(in_years)

\* a call where the second required skill is matched and the first is
\* missing, and the preferred skill is matched
C19_Witness ==
    /\ score_out # NoResult
    /\ in_cand = <<S_sql_padded, S_docker>>
    /\ in_req = <<S_Python_3, S_SQL>>
    /\ in_pref = <<S_Docker>>
    /\ score_out.matched_non_negotiable = <<S_SQL>>
    /\ score_out.missing_non_negotiable = <<S_Python_3>>
    /\ score_out.matched_preferred = <<S_Docker>>

\* the ids of the roles that own a chunk of the index
ChunkOwners(docs) ==
    {docs[i].owner : i \in {i \in 1..Len(docs) : docs[i].type = "role"}}

\* the ids of the roles that are active
ActiveRoleIds ==
    {job_roles[k].id : k \in {k \in 1..Len(job_roles) : job_roles[k].is_active}}

(***************************************************************************)
(* C20: immediately after rebuild_cv_vector_store the roles that own       *)
(* chunks are exactly the roles active at that moment, each with the       *)
(* chunks of its text once, and no resume chunk, chunk of a deactivated    *)
(* role or duplicate of the previous index remains, in memory or in the    *)
(* persisted copy.                                                         *)
(***************************************************************************)
C20_RebuildFromActiveRoles ==
    rebuilt # NoResult =>
        /\ VECTORSTORE.present
        /\ disk = VECTORSTORE
        /\ ChunkOwners(VECTORSTORE.docs) = ActiveRoleIds
        /\ \A i \in 1..Len(VECTORSTORE.docs) :
              /\ VECTORSTORE.docs[i].type # "resume"
              /\ VECTORSTORE.docs[i].type = "init" => ActiveRoleIds = {}
              /\ \A j \in 1..Len(VECTORSTORE.docs) :
                    VECTORSTORE.docs[i] = VECTORSTORE.docs[j] => i = j
        /\ \A k \in 1..Len(job_roles) :
              job_roles[k].is_active =>
                 RoleChunkCount(VECTORSTORE.docs, job_roles[k].id)
                    = job_roles[k].text_chunks
        /\ rebuilt.count = Cardinality(ActiveRoleIds)

\* a rebuild while one role is deactivated and another, of two chunks, is
\* active
C20_Witness ==
    /\ rebuilt # NoResult
    /\ \E k \in 1..Len(job_roles) : ~job_roles[k].is_active
    /\ \E k \in 1..Len(job_roles) :
          /\ job_roles[k].is_active
          /\ job_roles[k].text_chunks = 2
          /\ VECTORSTORE.docs = RoleChunks(job_roles[k])

(***************************************************************************)
(* C21: a semantic search that failed is observable by the caller of       *)
(* find_matching_roles: the result of a call whose search raised differs   *)
(* from the result the same call returns when the search succeeds with no  *)
(* hit.                                                                    *)
(***************************************************************************)
C21_FailedSearchDistinct ==
    (fm # NoResult /\ fm.resume_text /\ ~fm.ok) =>
        fm.out # find_matching_roles(ActiveRoles(job_roles), fm.parsed_data, << >>)

(***************************************************************************)
(* Stored shapes of a role's skill column.                                 *)
(***************************************************************************)
StoredList(items) == [kind |-> "list", items |-> items]
StoredStr(text)   == [kind |-> "str", text |-> text]
StoredNull        == [kind |-> "null"]
StoredNumber(n)   == [kind |-> "number", n |-> n]

\* a text that is not JSON
T_not_json == <<"s","q","l">>

ShapeLabels == {S_Python, S_SQL, S_Docker}

\* the values the non_negotiable_skills column is read as
StoredPool ==
    {StoredList(xs) : xs \in SeqsUpTo(ShapeLabels, MaxReq)}
    \cup {StoredStr(JsonDumps(xs)) : xs \in SeqsUpTo(ShapeLabels, MaxReq)}
    \cup {StoredStr(<< >>), StoredStr(T_not_json), StoredNull,
          StoredNumber(0), StoredNumber(5)}

Returned(skills) == [raised |-> FALSE, skills |-> skills]
Raised(error)    == [raised |-> TRUE, error |-> error]

\* json.loads(text) returns a list
IsJsonList(text) ==
    /\ Len(text) >= 2
    /\ text[1] = "["
    /\ text[Len(text)] = "]"
    /\ JsonDumps(JsonLoads(text)) = text

\* if isinstance(x, str): x = json.loads(x) if x else []
DecodeIfStr(x) ==
    IF x.kind # "str" THEN Returned(x)
    ELSE IF x.text = << >> THEN Returned(StoredList(<< >>))
    ELSE IF IsJsonList(x.text) THEN Returned(StoredList(JsonLoads(x.text)))
    ELSE Raised("JSONDecodeError")

\* for s in x / ', '.join(x): the items the loop visits
Iterate(x) ==
    IF x.kind = "list" THEN Returned(x.items)
    ELSE IF x.kind = "str" THEN Returned(IterChars(x.text))
    ELSE Raised("TypeError")

\* check_eligibility's guard: if not job_non_negotiable: job_non_negotiable = []
FalsyToEmpty(x) ==
    IF \/ x.kind = "null"
       \/ x.kind = "number" /\ x.n = 0
       \/ x.kind = "str" /\ x.text = << >>
       \/ x.kind = "list" /\ x.items = << >>
    THEN StoredList(<< >>) ELSE x

\* find_matching_roles with parsed data: decode, then calculate_match_score
\* iterates the value
MatchingSkills(x) ==
    IF DecodeIfStr(x).raised THEN DecodeIfStr(x)
    ELSE Iterate(DecodeIfStr(x).skills)

\* create_application: decode, then check_eligibility
CreateApplicationSkills(x) ==
    IF DecodeIfStr(x).raised THEN DecodeIfStr(x)
    ELSE Iterate(FalsyToEmpty(DecodeIfStr(x).skills))

\* recheck_eligibility: the value goes to check_eligibility as it is stored
RecheckSkillsOf(x) == Iterate(FalsyToEmpty(x))

\* add_role_to_vector_store: decode, then ', '.join
IndexSkills(x) ==
    IF DecodeIfStr(x).raised THEN DecodeIfStr(x)
    ELSE Iterate(DecodeIfStr(x).skills)

Sites == {"find_matching_roles", "create_application",
          "recheck_eligibility", "add_role_to_vector_store"}

SiteSkills(site, x) ==
    IF site = "find_matching_roles" THEN MatchingSkills(x)
    ELSE IF site = "create_application" THEN CreateApplicationSkills(x)
    ELSE IF site = "recheck_eligibility" THEN RecheckSkillsOf(x)
    ELSE IndexSkills(x)

\* in_req holds the stored value; score_out what the call site made of it
InitShape ==
    /\ in_req \in StoredPool
    /\ in_cand = << >>
    /\ in_pref = << >>
    /\ in_years = 0
    /\ in_other = << >>
    /\ elig_out = NoResult
    /\ score_out = NoResult
    /\ SysIdle

ReadSkills(site) ==
    /\ score_out = NoResult
    /\ score_out' = [site |-> site, result |-> SiteSkills(site, in_req)]
    /\ UNCHANGED <<in_cand, in_req, in_pref, in_years, in_other, elig_out>>
    /\ UNCHANGED sys_vars

NextShape == \E site \in Sites : ReadSkills(site)

SpecShape == InitShape /\ [][NextShape]_vars

\* the list the specification asks for: the list itself, the parsed list of
\* a JSON string, and the empty list for anything else
TolerantSkills(x) ==
    IF x.kind = "list" THEN x.items
    ELSE IF x.kind = "str" /\ IsJsonList(x.text) THEN JsonLoads(x.text)
    ELSE << >>

(***************************************************************************)
(* C22: whatever shape the stored skill list has, no call site raises: a   *)
(* string is parsed into a list and any other non-list value is treated as *)
(* the empty list, in find_matching_roles, create_application,             *)
(* recheck_eligibility and add_role_to_vector_store alike.                 *)
(***************************************************************************)
C22_TolerantCoercion ==
    score_out # NoResult =>
        /\ ~score_out.result.raised
        /\ score_out.result.skills = TolerantSkills(in_req)

(***************************************************************************)
(* Optional fields of parsed_data.                                         *)
(***************************************************************************)
Missing    == [kind |-> "missing"]
Null       == [kind |-> "null"]
Value(v)   == [kind |-> "value", v |-> v]

\* d.get(key, default), for the field the key holds
DictGet(field, default) == IF field.kind = "missing" THEN default ELSE field

FieldTechnicalPool ==
    {Missing, Null, Value(<< >>), Value(<<S_python>>), Value(<<S_python, S_docker>>)}

FieldSkillsPool ==
    {Missing, Null} \cup {Value([technical |-> t]) : t \in FieldTechnicalPool}

FieldYearsPool == {Missing, Null, Value(0), Value(5)}

\* parsed_data as stored; it always holds resume_text, so it is never empty
FieldParsedPool ==
    {[skills |-> s, years_of_experience |-> y] :
        s \in FieldSkillsPool, y \in FieldYearsPool}

FieldReqPool == {S_Python, S_SQL}

Gave(value) == [raised |-> FALSE, value |-> value]

\* find_matching_roles, rule-based branch, for one role
MatchingOfParsed(parsed_data, non_negotiable) ==
    LET skills == DictGet(parsed_data.skills, Value([technical |-> Missing]))
        years  == DictGet(parsed_data.years_of_experience, Value(0))
    IN  IF skills.kind = "null" THEN Raised("AttributeError")
        ELSE LET candidate_skills == DictGet(skills.v.technical, Value(<< >>))
             IN  IF candidate_skills.kind = "null" THEN Raised("TypeError")
                 ELSE IF years.kind = "null" THEN Raised("TypeError")
                 ELSE Gave(calculate_match_score(candidate_skills.v,
                               non_negotiable, << >>,
                               [years_of_experience |-> years.v]).score)

\* create_application's extraction of cv_skills, then check_eligibility
EligibilityOfParsed(parsed_data, job_non_negotiable) ==
    LET skills_data == DictGet(parsed_data.skills, Value([technical |-> Missing]))
        cv_skills ==
            IF skills_data.kind = "value"
            THEN DictGet(skills_data.v.technical, Value(<< >>))
            ELSE Value(<< >>)
        checked == IF cv_skills.kind = "null" THEN << >> ELSE cv_skills.v
    IN  Gave(check_eligibility(checked, job_non_negotiable).eligible)

\* in_cand holds parsed_data, in_req the role's required list
InitFields ==
    /\ in_cand \in FieldParsedPool
    /\ in_req \in SeqsUpTo(FieldReqPool, MaxReq)
    /\ in_pref = << >>
    /\ in_years = 0
    /\ in_other = << >>
    /\ elig_out = NoResult
    /\ score_out = NoResult
    /\ SysIdle

MatchParsed ==
    /\ score_out = NoResult
    /\ elig_out = NoResult
    /\ score_out' = MatchingOfParsed(in_cand, in_req)
    /\ UNCHANGED <<in_cand, in_req, in_pref, in_years, in_other, elig_out>>
    /\ UNCHANGED sys_vars

CheckParsed ==
    /\ score_out = NoResult
    /\ elig_out = NoResult
    /\ elig_out' = EligibilityOfParsed(in_cand, in_req)
    /\ UNCHANGED <<in_cand, in_req, in_pref, in_years, in_other, score_out>>
    /\ UNCHANGED sys_vars

NextFields == MatchParsed \/ CheckParsed

SpecFields == InitFields /\ [][NextFields]_vars

\* the technical list and the years with every missing or null field
\* replaced by its default
DefaultedSkills(parsed_data) ==
    IF parsed_data.skills.kind # "value" THEN << >>
    ELSE IF parsed_data.skills.v.technical.kind # "value" THEN << >>
    ELSE parsed_data.skills.v.technical.v

DefaultedYears(parsed_data) ==
    IF parsed_data.years_of_experience.kind # "value" THEN 0
    ELSE parsed_data.years_of_experience.v

(***************************************************************************)
(* C23: when parsed data lacks skills, the technical list or               *)
(* years_of_experience, or holds null for any of them, the eligibility     *)
(* check and find_matching_roles do not raise and return the result for an *)
(* empty skill list (or zero years).                                       *)
(***************************************************************************)
C23_MissingFieldsDefaulted ==
    /\ score_out # NoResult =>
          /\ ~score_out.raised
          /\ score_out.value =
                calculate_match_score(DefaultedSkills(in_cand), in_req, << >>,
                    [years_of_experience |-> DefaultedYears(in_cand)]).score
    /\ elig_out # NoResult =>
          /\ ~elig_out.raised
          /\ elig_out.value =
                check_eligibility(DefaultedSkills(in_cand), in_req).eligible

(***************************************************************************)
(* SpecUpsert: two workers run add_role_to_vector_store side by side.  The *)
(* function takes no lock; its steps are the lookup of the store, the      *)
(* add_documents on the shared object, and the save_local to disk.         *)
(***************************************************************************)
\* vectorstore = get_cv_vector_store()
UpsertStart(w, job_data) ==
    LET vectorstore == get_cv_vector_store
    IN  /\ inflight[w] = Idle
        /\ inflight' = [inflight EXCEPT ![w] =
                [op |-> "add_role", pc |-> "add", job |-> job_data]]
        /\ VECTORSTORE' = vectorstore.mem
        /\ disk' = vectorstore.disk
        /\ search_out' = NoResult
        /\ fm' = NoResult
        /\ rebuilt' = NoResult
        /\ UNCHANGED <<job_roles, cvs, applications, recheck_out,
                       interviews, onboarding, response>>
        /\ UNCHANGED pure_vars

\* vectorstore.add_documents(chunks)
UpsertAdd(w) ==
    /\ inflight[w].op = "add_role"
    /\ inflight[w].pc = "add"
    /\ LET docs == AddedRoleDocs(VECTORSTORE.docs, inflight[w].job)
       IN  /\ Len(docs) <= MaxDocs
           /\ VECTORSTORE' = [present |-> TRUE, docs |-> docs]
    /\ inflight' = [inflight EXCEPT ![w].pc = "save"]
    /\ search_out' = NoResult
    /\ fm' = NoResult
    /\ rebuilt' = NoResult
    /\ UNCHANGED <<job_roles, disk, cvs, applications, recheck_out,
                   interviews, onboarding, response>>
    /\ UNCHANGED pure_vars

\* vectorstore.save_local(VECTOR_STORE_PATH)
UpsertSave(w) ==
    /\ inflight[w].op = "add_role"
    /\ inflight[w].pc = "save"
    /\ disk' = VECTORSTORE
    /\ inflight' = [inflight EXCEPT ![w].pc = "done"]
    /\ search_out' = NoResult
    /\ fm' = NoResult
    /\ rebuilt' = NoResult
    /\ UNCHANGED <<job_roles, VECTORSTORE, cvs, applications, recheck_out,
                   interviews, onboarding, response>>
    /\ UNCHANGED pure_vars

InitUpsert == PureIdle /\ SysIdle

NextUpsert ==
    \/ \E request \in IndexJobPool : create_job(request)
    \/ \E w \in Workers, i \in 1..Len(job_roles) : UpsertStart(w, job_roles[i])
    \/ \E w \in Workers : UpsertAdd(w)
    \/ \E w \in Workers : UpsertSave(w)

SpecUpsert == InitUpsert /\ [][NextUpsert]_vars

\* both workers have returned from an upsert of the same role
BothUpserted(role_id) ==
    \A w \in Workers :
        /\ inflight[w].op = "add_role"
        /\ inflight[w].pc = "done"
        /\ inflight[w].job.id = role_id

(***************************************************************************)
(* C24: after two add_role_to_vector_store calls for one role id, however  *)
(* their steps interleave, the index holds exactly one complete set of     *)
(* chunks for that role, in memory and on disk.                            *)
(***************************************************************************)
C24_ConcurrentUpsertsOneChunkSet ==
    \A i \in 1..Len(job_roles) :
        BothUpserted(job_roles[i].id) =>
            /\ RoleChunkCount(VECTORSTORE.docs, job_roles[i].id)
                  = job_roles[i].text_chunks
            /\ RoleChunkCount(disk.docs, job_roles[i].id)
                  = job_roles[i].text_chunks

(***************************************************************************)
(* Application status: routers/applications.py, routers/interviews.py      *)
(***************************************************************************)
APPLICATION_STATUSES ==
    {"applied", "under_ai_review", "shortlisted", "interview_scheduled",
     "interview_completed", "rejected", "offered"}

VALID_TRANSITIONS ==
    [s \in APPLICATION_STATUSES |->
        CASE s = "applied" ->
                {"under_ai_review", "shortlisted", "interview_scheduled", "rejected"}
          [] s = "under_ai_review" ->
                {"shortlisted", "interview_scheduled", "rejected"}
          [] s = "shortlisted" -> {"interview_scheduled", "rejected", "offered"}
          [] s = "interview_scheduled" ->
                {"interview_completed", "rejected", "offered"}
          [] s = "interview_completed" -> {"offered", "rejected"}
          [] s = "rejected" -> {}
          [] s = "offered" -> {}]

\* faulty variant: every listed status may follow any status
validate_status_transition_any(current_status, new_status) ==
    new_status \in APPLICATION_STATUSES

validate_status_transition(current_status, new_status) ==
    IF current_status \notin DOMAIN VALID_TRANSITIONS THEN FALSE
    ELSE new_status \in VALID_TRANSITIONS[current_status]

\* the statuses a request may name: the listed ones and one that is not
RequestedStatuses == APPLICATION_STATUSES \cup {"withdrawn"}

\* the roles the status and race specifications post
StatusJobPool ==
    { [non_negotiable_skills |-> << >>, preferred_skills |-> << >>,
       text_chunks |-> 1, stored_as_json |-> FALSE] }

\* what the endpoint answers, with the stored row it found
StatusResponse(op, code, application_id, requested, before) ==
    [op |-> op, code |-> code, application_id |-> application_id,
     requested |-> requested, before |-> before]

\* PUT /applications/{application_id}/status
update_application_status(application_id, status) ==
    /\ IF status \notin APPLICATION_STATUSES
       THEN /\ response' = StatusResponse("update_application_status", 400,
                                          application_id, status, NoneVal)
            /\ UNCHANGED applications
       ELSE IF application_id \notin 1..Len(applications)
       THEN /\ response' = StatusResponse("update_application_status", 404,
                                          application_id, status, NoneVal)
            /\ UNCHANGED applications
       ELSE IF ~validate_status_transition(applications[application_id].status,
                                           status)
       THEN /\ response' = StatusResponse("update_application_status", 400,
                               application_id, status,
                               Some(applications[application_id]))
            /\ UNCHANGED applications
       ELSE /\ response' = StatusResponse("update_application_status", 200,
                               application_id, status,
                               Some(applications[application_id]))
            /\ applications' =
                  [applications EXCEPT ![application_id].status = status]
    /\ recheck_out' = NoResult
    /\ search_out' = NoResult
    /\ fm' = NoResult
    /\ rebuilt' = NoResult
    /\ UNCHANGED <<job_roles, VECTORSTORE, disk, cvs>>
    /\ UNCHANGED <<inflight, interviews, onboarding>>
    /\ UNCHANGED pure_vars

InitTransition == PureIdle /\ SysIdle

NextTransition ==
    \/ \E request \in StatusJobPool : create_job(request)
    \/ \E job_id \in RoleIds : create_application(job_id, NoneVal)
    \/ \E application_id \in 1..(MaxRoles + 1), status \in RequestedStatuses :
          update_application_status(application_id, status)

SpecTransition == InitTransition /\ [][NextTransition]_vars

(***************************************************************************)
(* C25: update_application_status changes the status from s to t only if  *)
(* t is listed in VALID_TRANSITIONS[s]; any other request is answered with *)
(* an error and leaves the stored row as it was, so rejected and offered   *)
(* are never left through this endpoint.                                   *)
(***************************************************************************)
C25_OnlyValidTransitions ==
    (response # NoResult /\ response.op = "update_application_status") =>
        /\ response.before = NoneVal => response.code \in {400, 404}
        /\ response.before # NoneVal =>
              LET before == response.before[1]
                  now    == applications[response.application_id]
                  listed == /\ response.requested \in APPLICATION_STATUSES
                            /\ response.requested \in VALID_TRANSITIONS[before.status]
              IN  /\ listed =>
                        /\ response.code = 200
                        /\ now = [before EXCEPT !.status = response.requested]
                  /\ ~listed =>
                        /\ response.code = 400
                        /\ now = before
                  /\ before.status \in {"rejected", "offered"} => now = before

\* a request to move a rejected application to offered was answered 400,
\* while an accepted change is stored on another application
C25_Witness ==
    /\ response # NoResult
    /\ response.op = "update_application_status"
    /\ response.code = 400
    /\ response.before # NoneVal
    /\ response.before[1].status = "rejected"
    /\ response.requested = "offered"
    /\ applications[response.application_id].status = "rejected"
    /\ \E a \in 1..Len(applications) : applications[a].status = "shortlisted"

(***************************************************************************)
(* SpecStatus: every endpoint that writes an application's status.         *)
(***************************************************************************)
MaxInterviews == 1
MaxReschedules == 1

INTERVIEW_STATUSES ==
    {"scheduled", "confirmed", "rescheduled", "completed", "cancelled", "no_show"}

\* POST /applications/{application_id}/schedule-interview
schedule_interview_for_application(application_id) ==
    /\ IF application_id \notin 1..Len(applications)
       THEN /\ response' = StatusResponse("schedule_interview_for_application",
                               404, application_id, "interview_scheduled", NoneVal)
            /\ UNCHANGED applications
       ELSE IF applications[application_id].status = "rejected"
       THEN /\ response' = StatusResponse("schedule_interview_for_application",
                               400, application_id, "interview_scheduled",
                               Some(applications[application_id]))
            /\ UNCHANGED applications
       ELSE /\ response' = StatusResponse("schedule_interview_for_application",
                               200, application_id, "interview_scheduled",
                               Some(applications[application_id]))
            /\ applications' = [applications EXCEPT
                  ![application_id].status = "interview_scheduled"]
    /\ recheck_out' = NoResult
    /\ search_out' = NoResult
    /\ fm' = NoResult
    /\ rebuilt' = NoResult
    /\ UNCHANGED <<job_roles, VECTORSTORE, disk, cvs>>
    /\ UNCHANGED <<inflight, interviews, onboarding>>
    /\ UNCHANGED pure_vars

\* POST /interviews, with a valid interview type and a date in the future
schedule_interview(application_id) ==
    /\ IF application_id \notin 1..Len(applications)
       THEN /\ response' = StatusResponse("schedule_interview", 404,
                               application_id, "interview_scheduled", NoneVal)
            /\ UNCHANGED <<applications, interviews>>
       ELSE IF applications[application_id].status
                  \notin {"shortlisted", "interview_scheduled"}
       THEN /\ response' = StatusResponse("schedule_interview", 400,
                               application_id, "interview_scheduled",
                               Some(applications[application_id]))
            /\ UNCHANGED <<applications, interviews>>
       ELSE /\ Len(interviews) < MaxInterviews
            /\ response' = StatusResponse("schedule_interview", 201,
                               application_id, "interview_scheduled",
                               Some(applications[application_id]))
            /\ interviews' = Append(interviews,
                  [id |-> Len(interviews) + 1,
                   application_id |-> application_id,
                   status |-> "scheduled",
                   reschedule_count |-> 0])
            /\ applications' = [applications EXCEPT
                  ![application_id].status = "interview_scheduled"]
    /\ recheck_out' = NoResult
    /\ search_out' = NoResult
    /\ fm' = NoResult
    /\ rebuilt' = NoResult
    /\ UNCHANGED <<job_roles, VECTORSTORE, disk, cvs>>
    /\ UNCHANGED <<inflight, onboarding>>
    /\ UNCHANGED pure_vars

\* PUT /interviews/{interview_id}/status, sent by HR
update_interview_status(interview_id, status) ==
    /\ IF status \notin INTERVIEW_STATUSES
       THEN /\ response' = StatusResponse("update_interview_status", 400,
                               0, status, NoneVal)
            /\ UNCHANGED <<applications, interviews>>
       ELSE IF interview_id \notin 1..Len(interviews)
       THEN /\ response' = StatusResponse("update_interview_status", 404,
                               0, status, NoneVal)
            /\ UNCHANGED <<applications, interviews>>
       ELSE LET interview == interviews[interview_id]
                application_id == interview.application_id
            IN  /\ status = "rescheduled" =>
                      interview.reschedule_count < MaxReschedules
                /\ response' = StatusResponse("update_interview_status", 200,
                                   application_id, status,
                                   Some(applications[application_id]))
                /\ interviews' = [interviews EXCEPT ![interview_id] =
                      [@ EXCEPT !.status = status,
                                !.reschedule_count =
                                    IF status = "rescheduled" THEN @ + 1 ELSE @]]
                /\ applications' =
                      IF status = "completed"
                      THEN [applications EXCEPT
                              ![application_id].status = "interview_completed"]
                      ELSE applications
    /\ recheck_out' = NoResult
    /\ search_out' = NoResult
    /\ fm' = NoResult
    /\ rebuilt' = NoResult
    /\ UNCHANGED <<job_roles, VECTORSTORE, disk, cvs>>
    /\ UNCHANGED <<inflight, onboarding>>
    /\ UNCHANGED pure_vars

InitStatus == PureIdle /\ SysIdle

NextStatus ==
    \/ \E request \in StatusJobPool : create_job(request)
    \/ \E job_id \in RoleIds : create_application(job_id, NoneVal)
    \/ \E application_id \in 1..(MaxRoles + 1), status \in RequestedStatuses :
          update_application_status(application_id, status)
    \/ \E application_id \in 1..(MaxRoles + 1) :
          schedule_interview_for_application(application_id)
    \/ \E application_id \in 1..(MaxRoles + 1) :
          schedule_interview(application_id)
    \/ \E interview_id \in 1..(MaxInterviews + 1),
          status \in {"confirmed", "rescheduled", "completed", "on_hold"} :
          update_interview_status(interview_id, status)

SpecStatus == InitStatus /\ [][NextStatus]_vars

(***************************************************************************)
(* C26: whichever endpoint writes it, every change of an application's     *)
(* status is an edge of VALID_TRANSITIONS; once an application is rejected *)
(* or offered its status never changes again.                              *)
(***************************************************************************)
C26_EveryChangeIsAnEdge ==
    [][\A a \in 1..Len(applications) :
          applications'[a].status # applications[a].status =>
             applications'[a].status
                \in VALID_TRANSITIONS[applications[a].status]]_vars

(***************************************************************************)
(* SpecCv: the CV endpoints of one candidate.                              *)
(***************************************************************************)
\* faulty variant: the current primary is left as it is
WithPrimaryUnset_skipped(rows) == rows

\* update({"is_primary": False}).eq('candidate_id', ...).eq('is_primary', True)
WithPrimaryUnset(rows) ==
    [i \in 1..Len(rows) |-> [rows[i] EXCEPT !.is_primary = FALSE]]

\* PUT /cvs/{cv_id}/primary; a request answered 404 changes nothing
set_primary_cv(cv_id) ==
    /\ CvRows(cv_id) # {}
    /\ LET unset == WithPrimaryUnset(cvs)
       IN  cvs' = [i \in 1..Len(cvs) |->
                     IF unset[i].id = cv_id
                     THEN [unset[i] EXCEPT !.is_primary = TRUE]
                     ELSE unset[i]]
    /\ recheck_out' = NoResult
    /\ search_out' = NoResult
    /\ fm' = NoResult
    /\ rebuilt' = NoResult
    /\ UNCHANGED <<job_roles, VECTORSTORE, disk, applications>>
    /\ UNCHANGED pure_vars
    /\ UNCHANGED ext_vars

\* the applications that keep a CV from being deleted
ActiveApplicationsOf(cv_id) ==
    {a \in 1..Len(applications) :
        /\ applications[a].cv_id = Some(cv_id)
        /\ applications[a].status \notin {"rejected", "offered"}}

\* DELETE /cvs/{cv_id}; a request answered 404 or 400 changes nothing.  The
\* query for another CV has no order: any other row may become primary.
delete_cv(cv_id) ==
    /\ CvRows(cv_id) # {}
    /\ Len(cvs) > 1
    /\ ActiveApplicationsOf(cv_id) = {}
    /\ LET cv == cvs[CHOOSE i \in CvRows(cv_id) : TRUE]
           others == {i \in 1..Len(cvs) : cvs[i].id # cv_id}
       IN  \E other \in others :
              LET promoted ==
                     [i \in 1..Len(cvs) |->
                        IF cv.is_primary /\ i = other
                        THEN [cvs[i] EXCEPT !.is_primary = TRUE]
                        ELSE cvs[i]]
                  kept == [i \in 1..Len(cvs) |-> promoted[i].id # cv_id]
              IN  cvs' = SelectSeqBy(promoted, kept)
    /\ recheck_out' = NoResult
    /\ search_out' = NoResult
    /\ fm' = NoResult
    /\ rebuilt' = NoResult
    /\ UNCHANGED <<job_roles, VECTORSTORE, disk, applications>>
    /\ UNCHANGED pure_vars
    /\ UNCHANGED ext_vars

InitCv == PureIdle /\ SysIdle

NextCv ==
    \/ \E request \in StatusJobPool : create_job(request)
    \/ \E is_primary \in BOOLEAN : upload_cv(is_primary)
    \/ \E cv_id \in 1..MaxCvs : set_primary_cv(cv_id)
    \/ \E cv_id \in 1..MaxCvs : delete_cv(cv_id)
    \/ \E job_id \in RoleIds :
          \E cv_id \in {NoneVal} \cup {Some(c) : c \in 1..MaxCvs} :
              create_application(job_id, cv_id)

SpecCv == InitCv /\ [][NextCv]_vars

\* the rows of cvs flagged primary
PrimaryCvs == {i \in 1..Len(cvs) : cvs[i].is_primary}

(***************************************************************************)
(* C27: after any sequence of completed upload_cv, set_primary_cv and      *)
(* delete_cv requests, a candidate with at least one CV has exactly one    *)
(* primary CV, and a candidate with no CV has none.                        *)
(***************************************************************************)
C27_ExactlyOnePrimary ==
    /\ cvs # << >> => Cardinality(PrimaryCvs) = 1
    /\ cvs = << >> => PrimaryCvs = {}

\* the first CV was deleted and the CV uploaded after it is the primary one
C27_Witness ==
    /\ Len(cvs) = 1
    /\ cvs[1].id = 2
    /\ cvs[1].is_primary

(***************************************************************************)
(* SpecRace: create_application and withdraw_application requests of one   *)
(* candidate, served by two workers on the same database.  Each database   *)
(* call is one step; nothing in create_application ties its existence      *)
(* check to its insert.                                                    *)
(***************************************************************************)
\* the id the database gives a new row of applications
NewApplicationId ==
    CHOOSE n \in 1..(Len(applications) + 1) :
        /\ \A a \in 1..Len(applications) : applications[a].id # n
        /\ \A m \in 1..(n - 1) : \E a \in 1..Len(applications) : applications[a].id = m

\* create_application up to the check for an existing application; a
\* request answered 404 or 400 ends here and changes nothing
CreateCheck(w, job_role_id) ==
    /\ inflight[w] = Idle
    /\ \E i \in 1..Len(job_roles) :
          job_roles[i].id = job_role_id /\ job_roles[i].is_active
    /\ \A a \in 1..Len(applications) : applications[a].job_role_id # job_role_id
    /\ inflight' = [inflight EXCEPT ![w] =
          [op |-> "create_application", pc |-> "insert",
           job |-> job_roles[CHOOSE i \in 1..Len(job_roles) :
                                job_roles[i].id = job_role_id]]]
    /\ recheck_out' = NoResult
    /\ search_out' = NoResult
    /\ fm' = NoResult
    /\ rebuilt' = NoResult
    /\ UNCHANGED <<job_roles, VECTORSTORE, disk, cvs, applications>>
    /\ UNCHANGED <<interviews, onboarding, response>>
    /\ UNCHANGED pure_vars

\* create_application from the lookup of the primary CV to the insert
CreateInsert(w) ==
    /\ inflight[w].op = "create_application"
    /\ inflight[w].pc = "insert"
    /\ LET job == inflight[w].job
           cv_data == SelectedCv(NoneVal)
           e == EligibilityAtCreation(cv_data, job)
       IN  applications' = Append(applications,
                [id |-> NewApplicationId,
                 job_role_id |-> job.id,
                 cv_id |-> IF cv_data # NoneVal THEN Some(cv_data[1].id) ELSE NoneVal,
                 status |-> "applied",
                 eligibility_check_passed |-> e.passed,
                 eligibility_details |-> e.details])
    /\ inflight' = [inflight EXCEPT ![w] = Idle]
    /\ recheck_out' = NoResult
    /\ search_out' = NoResult
    /\ fm' = NoResult
    /\ rebuilt' = NoResult
    /\ UNCHANGED <<job_roles, VECTORSTORE, disk, cvs>>
    /\ UNCHANGED <<interviews, onboarding, response>>
    /\ UNCHANGED pure_vars

\* DELETE /applications/{application_id}; a request answered 404 or 400
\* changes nothing
withdraw_application(application_id) ==
    /\ \E a \in 1..Len(applications) :
          /\ applications[a].id = application_id
          /\ applications[a].status \in {"applied", "under_ai_review"}
    /\ applications' =
          SelectSeqBy(applications,
              [a \in 1..Len(applications) |-> applications[a].id # application_id])
    /\ recheck_out' = NoResult
    /\ search_out' = NoResult
    /\ fm' = NoResult
    /\ rebuilt' = NoResult
    /\ UNCHANGED <<job_roles, VECTORSTORE, disk, cvs>>
    /\ UNCHANGED ext_vars
    /\ UNCHANGED pure_vars

InitRace == PureIdle /\ SysIdle

NextRace ==
    \/ \E request \in StatusJobPool : create_job(request)
    \/ \E w \in Workers, job_id \in RoleIds : CreateCheck(w, job_id)
    \/ \E w \in Workers : CreateInsert(w)
    \/ \E application_id \in 1..(MaxRoles + 1) : withdraw_application(application_id)

SpecRace == InitRace /\ [][NextRace]_vars

(***************************************************************************)
(* C28: at most one application exists per (candidate, job role) pair at   *)
(* any time, under any interleaving of create_application and              *)
(* withdraw_application requests, including two create_application         *)
(* requests whose existence check and insert interleave.                   *)
(***************************************************************************)
C28_OneApplicationPerRole ==
    \A a, b \in 1..Len(applications) :
        applications[a].job_role_id = applications[b].job_role_id => a = b

(***************************************************************************)
(* SpecParse: the parsing status of the candidate's CVs.                   *)
(***************************************************************************)
\* POST /cvs/{cv_id}/parse; a request answered 404 changes nothing.  The
\* handler writes "processing" and starts no parsing.
trigger_cv_parsing(cv_id) ==
    /\ cv_id \in 1..Len(cvs)
    /\ cvs' = [cvs EXCEPT ![cv_id].parsing_status = "processing"]
    /\ recheck_out' = NoResult
    /\ search_out' = NoResult
    /\ fm' = NoResult
    /\ rebuilt' = NoResult
    /\ UNCHANGED <<job_roles, VECTORSTORE, disk, applications>>
    /\ UNCHANGED pure_vars
    /\ UNCHANGED ext_vars

InitParse == PureIdle /\ SysIdle

NextParse ==
    \/ \E is_primary \in BOOLEAN : upload_cv(is_primary)
    \/ \E cv_id \in 1..MaxCvs, index_ok \in BOOLEAN :
          \E parsed \in {NoneVal} \cup {Some(x) : x \in CvParsedPool} :
              parse_cv_background(cv_id, parsed, index_ok)
    \/ \E cv_id \in 1..MaxCvs : trigger_cv_parsing(cv_id)

SpecParse == InitParse /\ [][NextParse]_vars

TerminalParsingStatuses == {"completed", "failed"}

(***************************************************************************)
(* C29: once the parsing_status of a CV is completed or failed it stays    *)
(* completed or failed; no later operation, trigger_cv_parsing included,   *)
(* moves the CV back to a status that is not terminal.                     *)
(***************************************************************************)
C29_TerminalStatusStays ==
    [][\A i \in 1..Len(cvs) :
          cvs[i].parsing_status \in TerminalParsingStatuses =>
             cvs'[i].parsing_status \in TerminalParsingStatuses]_vars

(***************************************************************************)
(* New-hire onboarding: onboarding.py update_progress and the record that  *)
(* onboarding_templates.py start_new_hire_onboarding creates.  One record  *)
(* is followed.  template_items is the number of items of the record's     *)
(* template, which no operation here changes; completion_percentage is     *)
(* kept in tenths of a percent, the precision round(x, 1) stores.          *)
(***************************************************************************)
MaxItems == 2

\* a template long enough for one item to weigh less than 0.05 percent,
\* and the number of its items already completed in the record PartWay
LargeTemplate == 2000
LargeDone == 1998

ITEM_STATUSES == {"pending", "in_progress", "completed", "skipped"}

\* statuses a request may carry: two valid ones and one that is not valid
RequestedItemStatuses == {"in_progress", "completed", "done"}

\* template lengths: 0 is a template whose items list is empty
TemplateSizes == 0..MaxItems

\* item_index is any integer of the request: it is not compared with the
\* length of the template
ItemIndexes == (0..(MaxItems - 1)) \cup {LargeDone}

\* round(completed_items / total_items * 100, 1), in tenths of a percent
StoredPercentage(completed_items, total_items) ==
    IF total_items > 0 THEN RoundDiv(completed_items * 1000, total_items) ELSE 0

\* the record start_new_hire_onboarding inserts
StartedOnboarding(template_items) ==
    [assigned |-> TRUE, status |-> "not_started", progress |-> << >>,
     completion_percentage |-> 0, template_items |-> template_items]

\* the record of a LargeTemplate onboarding after its first LargeDone items
\* were completed one by one
PartWay ==
    [assigned |-> TRUE, status |-> "in_progress",
     progress |-> [i \in 1..LargeDone |->
                      [item_index |-> i - 1, status |-> "completed"]],
     completion_percentage |-> StoredPercentage(LargeDone, LargeTemplate),
     template_items |-> LargeTemplate]

\* the progress list after the loop over it: the first entry of item_index
\* takes the status, or a new entry is appended
WithItemStatus(progress, item_index, status) ==
    LET found == {i \in 1..Len(progress) : progress[i].item_index = item_index}
    IN  IF found # {}
        THEN LET first == CHOOSE i \in found : \A j \in found : i <= j
             IN  [progress EXCEPT ![first].status = status]
        ELSE Append(progress, [item_index |-> item_index, status |-> status])

CompletedItems(progress) ==
    Cardinality({i \in 1..Len(progress) : progress[i].status = "completed"})

\* the template's length, or the length of the progress list when the
\* template has no items
TotalItems(record, progress) ==
    IF record.template_items > 0 THEN record.template_items ELSE Len(progress)

ProgressResponse(code, item_index, status, before) ==
    [op |-> "update_progress", code |-> code, item_index |-> item_index,
     requested |-> status, before |-> before]

\* the row update_progress writes for a request it accepts; the test
\* completed_items / total_items * 100 >= 100 is completed_items >= total_items
UpdatedOnboarding(record, item_index, status) ==
    LET progress == WithItemStatus(record.progress, item_index, status)
        total_items == TotalItems(record, progress)
        completed_items == CompletedItems(progress)
        started == IF record.status = "not_started"
                   THEN "in_progress" ELSE record.status
        new_status == IF total_items > 0 /\ completed_items >= total_items
                      THEN "completed" ELSE started
    IN  [record EXCEPT !.progress = progress,
                       !.completion_percentage =
                           StoredPercentage(completed_items, total_items),
                       !.status = new_status]

start_new_hire_onboarding(template_items) ==
    /\ ~onboarding.assigned
    /\ onboarding' = StartedOnboarding(template_items)
    /\ response' = NoResult
    /\ recheck_out' = NoResult
    /\ search_out' = NoResult
    /\ fm' = NoResult
    /\ rebuilt' = NoResult
    /\ UNCHANGED <<job_roles, VECTORSTORE, disk, cvs, applications>>
    /\ UNCHANGED <<inflight, interviews>>
    /\ UNCHANGED pure_vars

update_progress(item_index, status) ==
    /\ IF status \notin ITEM_STATUSES
       THEN /\ response' = ProgressResponse(400, item_index, status, onboarding)
            /\ UNCHANGED onboarding
       ELSE IF ~onboarding.assigned
       THEN /\ response' = ProgressResponse(404, item_index, status, onboarding)
            /\ UNCHANGED onboarding
       ELSE IF onboarding.status = "completed"
       THEN /\ response' = ProgressResponse(400, item_index, status, onboarding)
            /\ UNCHANGED onboarding
       ELSE /\ response' = ProgressResponse(200, item_index, status, onboarding)
            /\ onboarding' = UpdatedOnboarding(onboarding, item_index, status)
    /\ recheck_out' = NoResult
    /\ search_out' = NoResult
    /\ fm' = NoResult
    /\ rebuilt' = NoResult
    /\ UNCHANGED <<job_roles, VECTORSTORE, disk, cvs, applications>>
    /\ UNCHANGED <<inflight, interviews>>
    /\ UNCHANGED pure_vars

InitOnboarding ==
    /\ PureIdle
    /\ job_roles = << >>
    /\ VECTORSTORE = NoStore
    /\ disk = NoStore
    /\ search_out = NoResult
    /\ fm = NoResult
    /\ rebuilt = NoResult
    /\ cvs = << >>
    /\ applications = << >>
    /\ recheck_out = NoResult
    /\ inflight = [w \in Workers |-> Idle]
    /\ interviews = << >>
    /\ response = NoResult
    /\ onboarding \in {NoOnboarding, PartWay}

NextOnboarding ==
    \/ \E template_items \in TemplateSizes :
          start_new_hire_onboarding(template_items)
    \/ \E item_index \in ItemIndexes, status \in RequestedItemStatuses :
          update_progress(item_index, status)

SpecOnboarding == InitOnboarding /\ [][NextOnboarding]_vars

PercentageInRange ==
    onboarding.assigned => onboarding.completion_percentage \in 0..1000

OneEntryPerItem ==
    onboarding.assigned =>
        Cardinality({onboarding.progress[i].item_index :
                        i \in 1..Len(onboarding.progress)})
            = Len(onboarding.progress)

CompletedIsLocked ==
    (/\ response # NoResult
     /\ response.op = "update_progress"
     /\ response.before.assigned
     /\ response.before.status = "completed")
        => response.code = 400 /\ onboarding = response.before

CompletedIffHundred ==
    onboarding.assigned =>
        (onboarding.status = "completed"
            <=> onboarding.completion_percentage = 1000)

(***************************************************************************)
(* C30: after any sequence of update_progress requests on a record the     *)
(* stored completion_percentage is within 0..100, the status is completed  *)
(* exactly when the stored completion_percentage is 100, the progress list *)
(* has at most one entry per item_index, and a request on a completed      *)
(* record is rejected and leaves the record as it was.                     *)
(***************************************************************************)
C30_ProgressRecordConsistent ==
    /\ PercentageInRange
    /\ CompletedIffHundred
    /\ OneEntryPerItem
    /\ CompletedIsLocked

====
